---- MODULE Spec2Model ----
(***************************************************************************)
(* Model of the shuttle tracker server (src/server.js): the two            *)
(* calculation functions calculateClusters and calculateTripHealth and     *)
(* the helpers they call, and the handlers that write the data file.       *)
(*                                                                         *)
(* Times are milliseconds since the epoch, as Date.getTime() gives them.   *)
(* Coordinates are whole numbers of CoordUnitMeters on a locally flat      *)
(* grid; the distance function is the planar distance on that grid.        *)
(***************************************************************************)
EXTENDS Integers, Sequences, FiniteSets, TLC

VARIABLES bookings, trips, clock, tripClusterResults, tripHealth, file, requests,
          minimumClusterSize, scan, newBookings, uniqueData

vars == <<bookings, trips, clock, tripClusterResults, tripHealth, file, requests,
          minimumClusterSize, scan, newBookings, uniqueData>>

(***************************************************************************)
(* Program constants.                                                      *)
(***************************************************************************)
CLUSTER_RADIUS_METERS == 1000

MINIMUM_CLUSTER_SIZE == 2

RECENT_BOOKING_MINUTES == 5

MsPerMinute == 60 * 1000

ActiveMinutes == 2

StaleMinutes == 10

DefaultAccuracy == 50

(***************************************************************************)
(* Bounds of the model.                                                    *)
(***************************************************************************)
MaxPings == 5

MaxHealthPings == 3

MaxTicks == 1

MaxSnapshotPings == 4

MaxRequests == 3

MaxScanPoints == 5

MaxMinimumSize == 4
\* the number of bookings in the input of a center calculation
MaxCenterPings == 4

CoordUnitMeters == CLUSTER_RADIUS_METERS \div 2

TickMs == MsPerMinute \div 2

Clock0 == 21 * MsPerMinute

(***************************************************************************)
(* JavaScript values.  A timestamp is a value of tag                       *)
(*   "date"      a Date, an ISO string or a number: a valid instant v      *)
(*   "invalid"   a value new Date() cannot parse (getTime() is NaN)        *)
(*   "undefined" the field is missing                                      *)
(* A coordinate is a value of tag                                          *)
(*   "num"  a finite number v      "NaN"  the number NaN                   *)
(*   "str"  a value that is not of type number                             *)
(***************************************************************************)
NaN == -999999999

Null == [k |-> "null", v |-> 0]

Undefined == [k |-> "undefined", v |-> 0]

DateOf(ms) == [k |-> "date", v |-> ms]

InvalidDate == [k |-> "invalid", v |-> 0]

Num(n) == [k |-> "num", v |-> n]

NotANumber == [k |-> "NaN", v |-> 0]

NonNumber == [k |-> "str", v |-> 0]

\* new Date(x).getTime()
GetTime(ts) == IF ts.k = "date" THEN ts.v ELSE IF ts.k = "null" THEN 0 ELSE NaN

\* typeof x === 'number'
TypeofNumber(x) == x.k \in {"num", "NaN"}

\* Math.round(ms / (60 * 1000)): the nearest integer, halves upwards
RoundMinutes(ms) == (2 * ms + MsPerMinute) \div (2 * MsPerMinute)

Range(s) == {s[i] : i \in 1..Len(s)}

Indices(s) == [i \in 1..Len(s) |-> i]

(***************************************************************************)
(* calculateHaversineDistance, on the grid: the square of the distance in  *)
(* meters between two points given in grid units.                          *)
(***************************************************************************)
calculateHaversineDistanceSq(lat1, lon1, lat2, lon2) ==
    CoordUnitMeters * CoordUnitMeters *
        ((lat2 - lat1) * (lat2 - lat1) + (lon2 - lon1) * (lon2 - lon1))

\* the coordinate test of getNeighbors: a number that is not NaN
ValidCoord(x) == x.k = "num"

(***************************************************************************)
(* getNeighbors(point, pointIndex, allPoints, radiusMeters): the indices,  *)
(* in ascending order, of the other points within the radius.              *)
(***************************************************************************)
\* the test with < for <=
IsNeighbor_Strict(pointIndex, i, allPoints, radiusMeters) ==
    /\ i # pointIndex
    /\ ValidCoord(allPoints[i].lat) /\ ValidCoord(allPoints[i].lng)
    /\ calculateHaversineDistanceSq(allPoints[pointIndex].lat.v, allPoints[pointIndex].lng.v,
                                    allPoints[i].lat.v, allPoints[i].lng.v)
          < radiusMeters * radiusMeters

\* the test looking only at the points after the reference point
IsNeighbor_OnlyLater(pointIndex, i, allPoints, radiusMeters) ==
    /\ i > pointIndex
    /\ ValidCoord(allPoints[i].lat) /\ ValidCoord(allPoints[i].lng)
    /\ calculateHaversineDistanceSq(allPoints[pointIndex].lat.v, allPoints[pointIndex].lng.v,
                                    allPoints[i].lat.v, allPoints[i].lng.v)
          <= radiusMeters * radiusMeters

\* distance <= radiusMeters, for another point with numeric coordinates
IsNeighbor(pointIndex, i, allPoints, radiusMeters) ==
    /\ i # pointIndex
    /\ ValidCoord(allPoints[i].lat) /\ ValidCoord(allPoints[i].lng)
    /\ calculateHaversineDistanceSq(allPoints[pointIndex].lat.v, allPoints[pointIndex].lng.v,
                                    allPoints[i].lat.v, allPoints[i].lng.v)
          <= radiusMeters * radiusMeters

getNeighbors(pointIndex, allPoints, radiusMeters) ==
    IF ~(ValidCoord(allPoints[pointIndex].lat) /\ ValidCoord(allPoints[pointIndex].lng))
    THEN << >>
    ELSE LET Near(i) == IsNeighbor(pointIndex, i, allPoints, radiusMeters)
         IN  SelectSeq(Indices(allPoints), Near)

\* the test counting the point itself twice
IsCore_CountsSelfTwice(neighborIndices) == Len(neighborIndices) + 2 >= minimumClusterSize

\* the test left out: every point is taken for a core point
IsCore_AnyPoint(neighborIndices) == TRUE

\* the core point test: neighbors.length + 1 >= MINIMUM_CLUSTER_SIZE, the
\* constant having the configured value minimumClusterSize
IsCore(neighborIndices) == Len(neighborIndices) + 1 >= minimumClusterSize

(***************************************************************************)
(* The expansion loop of a cluster (while (queue.length > 0)).  Its state  *)
(* is the queue, the set of visited indices and the indices of the         *)
(* cluster in the order they were added.                                   *)
(***************************************************************************)
\* the iteration adding the dequeued point at the front of the cluster
ExpandStep_AddsInFront(points, st) ==
    LET neighborIndex == Head(st.queue)
        rest == Tail(st.queue)
    IN  IF neighborIndex \in st.visited
        THEN [st EXCEPT !.queue = rest]
        ELSE LET visited2 == st.visited \cup {neighborIndex}
                 neighborsOfNeighbor == getNeighbors(neighborIndex, points, CLUSTER_RADIUS_METERS)
                 NotVisited(idx) == idx \notin visited2
             IN  [queue   |-> IF IsCore(neighborsOfNeighbor)
                              THEN rest \o SelectSeq(neighborsOfNeighbor, NotVisited)
                              ELSE rest,
                  visited |-> visited2,
                  cluster |-> <<neighborIndex>> \o st.cluster]

\* the iteration that never enqueues the neighbors of an added point
ExpandStep_NoSpread(points, st) ==
    LET neighborIndex == Head(st.queue)
        rest == Tail(st.queue)
    IN  IF neighborIndex \in st.visited
        THEN [st EXCEPT !.queue = rest]
        ELSE [queue   |-> rest,
              visited |-> st.visited \cup {neighborIndex},
              cluster |-> Append(st.cluster, neighborIndex)]

\* the iteration without the test of line 281: a dequeued point is added
\* whether visited or not
ExpandStep_AddsVisited(points, st) ==
    LET neighborIndex == Head(st.queue)
        rest == Tail(st.queue)
        visited2 == st.visited \cup {neighborIndex}
        neighborsOfNeighbor == getNeighbors(neighborIndex, points, CLUSTER_RADIUS_METERS)
        NotVisited(idx) == idx \notin visited2
    IN  [queue   |-> IF IsCore(neighborsOfNeighbor)
                     THEN rest \o SelectSeq(neighborsOfNeighbor, NotVisited)
                     ELSE rest,
         visited |-> visited2,
         cluster |-> Append(st.cluster, neighborIndex)]

\* the iteration leaving a visited point at the front of the queue
ExpandStep_KeepsVisited(points, st) ==
    LET neighborIndex == Head(st.queue)
        rest == Tail(st.queue)
    IN  IF neighborIndex \in st.visited
        THEN st
        ELSE LET visited2 == st.visited \cup {neighborIndex}
                 neighborsOfNeighbor == getNeighbors(neighborIndex, points, CLUSTER_RADIUS_METERS)
                 NotVisited(idx) == idx \notin visited2
             IN  [queue   |-> IF IsCore(neighborsOfNeighbor)
                              THEN rest \o SelectSeq(neighborsOfNeighbor, NotVisited)
                              ELSE rest,
                  visited |-> visited2,
                  cluster |-> Append(st.cluster, neighborIndex)]

\* one iteration: shift the queue, skip a visited point, else mark it, add
\* it to the cluster and, when it is a core point, enqueue its neighbors
ExpandStep(points, st) ==
    LET neighborIndex == Head(st.queue)
        rest == Tail(st.queue)
    IN  IF neighborIndex \in st.visited
        THEN [st EXCEPT !.queue = rest]
        ELSE LET visited2 == st.visited \cup {neighborIndex}
                 neighborsOfNeighbor == getNeighbors(neighborIndex, points, CLUSTER_RADIUS_METERS)
                 NotVisited(idx) == idx \notin visited2
             IN  [queue   |-> IF IsCore(neighborsOfNeighbor)
                              THEN rest \o SelectSeq(neighborsOfNeighbor, NotVisited)
                              ELSE rest,
                  visited |-> visited2,
                  cluster |-> Append(st.cluster, neighborIndex)]

RECURSIVE Expand(_, _)
Expand(points, st) ==
    IF st.queue = << >> THEN st ELSE Expand(points, ExpandStep(points, st))

(***************************************************************************)
(* One iteration of points.forEach((point, index) => ...): the state is    *)
(* the set of visited indices and the clusters found so far.               *)
(***************************************************************************)
ScanPoint(points, index, sc) ==
    IF index \in sc.visited THEN sc
    ELSE LET visited1 == sc.visited \cup {index}
             neighborIndices == getNeighbors(index, points, CLUSTER_RADIUS_METERS)
         IN  IF IsCore(neighborIndices)
             THEN LET done == Expand(points, [queue   |-> neighborIndices,
                                              visited |-> visited1,
                                              cluster |-> <<index>>])
                  IN  [visited  |-> done.visited,
                       clusters |-> Append(sc.clusters, done.cluster)]
             ELSE [sc EXCEPT !.visited = visited1]

RECURSIVE ScanFrom(_, _, _)
ScanFrom(points, index, sc) ==
    IF index > Len(points) THEN sc
    ELSE ScanFrom(points, index + 1, ScanPoint(points, index, sc))

\* the clusters found for one trip, each a sequence of point indices
tripSpecificClusters(points) ==
    ScanFrom(points, 1, [visited |-> {}, clusters |-> << >>]).clusters

\* the reduce callback keeping the first cluster
PickLarger_KeepFirst(largest, current) == largest

\* the reduce callback with >= for >
PickLarger_LastWins(largest, current) ==
    IF Len(current) >= Len(largest) THEN current ELSE largest

\* the reduce callback: current.length > largest.length ? current : largest
PickLarger(largest, current) ==
    IF Len(current) > Len(largest) THEN current ELSE largest

RECURSIVE ReduceLargest(_, _, _)
ReduceLargest(cs, i, largest) ==
    IF i > Len(cs) THEN largest
    ELSE ReduceLargest(cs, i + 1, PickLarger(largest, cs[i]))

largestCluster(cs) == ReduceLargest(cs, 2, cs[1])

(***************************************************************************)
(* calculateWeightedCenter(points): the mean of the coordinates weighted   *)
(* by 1 / max(accuracy, 1), as exact fractions n / d in lowest terms, or   *)
(* NullCenter when no point has usable coordinates.                        *)
(***************************************************************************)
NullCenter == [lat |-> Null, lng |-> Null]

RECURSIVE Gcd(_, _)
Gcd(a, b) == IF b = 0 THEN (IF a < 0 THEN -a ELSE a) ELSE Gcd(b, a % b)

Frac(n, d) == LET g == Gcd(n, d) IN [k |-> "frac", n |-> n \div g, d |-> d \div g]

Max(a, b) == IF a >= b THEN a ELSE b

RECURSIVE ProdAccuracy(_, _)
ProdAccuracy(pts, i) ==
    IF i > Len(pts) THEN 1 ELSE Max(pts[i].accuracy, 1) * ProdAccuracy(pts, i + 1)

RECURSIVE SumOver(_, _, _)
SumOver(f, n, i) == IF i > n THEN 0 ELSE f[i] + SumOver(f, n, i + 1)

\* the center as the plain mean of the points
calculateWeightedCenter_Unweighted(points) ==
    LET Usable(p) == ValidCoord(p.lat) /\ ValidCoord(p.lng)
        valid == SelectSeq(points, Usable)
        sumLat == SumOver([i \in 1..Len(valid) |-> valid[i].lat.v], Len(valid), 1)
        sumLng == SumOver([i \in 1..Len(valid) |-> valid[i].lng.v], Len(valid), 1)
    IN  IF Len(points) = 0 \/ Len(valid) = 0 THEN NullCenter
        ELSE [lat |-> Frac(sumLat, Len(valid)), lng |-> Frac(sumLng, Len(valid))]

calculateWeightedCenter(points) ==
    LET Usable(p) == ValidCoord(p.lat) /\ ValidCoord(p.lng)
        valid == SelectSeq(points, Usable)
        scale == ProdAccuracy(valid, 1)
        weight == [i \in 1..Len(valid) |-> scale \div Max(valid[i].accuracy, 1)]
        totalWeight == SumOver(weight, Len(valid), 1)
        sumLatWeight == SumOver([i \in 1..Len(valid) |-> valid[i].lat.v * weight[i]], Len(valid), 1)
        sumLngWeight == SumOver([i \in 1..Len(valid) |-> valid[i].lng.v * weight[i]], Len(valid), 1)
    IN  IF Len(points) = 0 \/ Len(valid) = 0 THEN NullCenter
        ELSE [lat |-> Frac(sumLatWeight, totalWeight),
              lng |-> Frac(sumLngWeight, totalWeight)]

(***************************************************************************)
(* calculateClusters(bookings, trips), the clock reading being now.        *)
(***************************************************************************)
cutoffTime(now) == now - RECENT_BOOKING_MINUTES * 60 * 1000

\* the filter without the comparison with the cutoff
IsRecentBooking_NoCutoff(booking, now) ==
    /\ booking.timestamp.k # "undefined"
    /\ TypeofNumber(booking.lat)
    /\ TypeofNumber(booking.lng)
    /\ GetTime(booking.timestamp) # NaN

\* the filter callback of recentBookings
IsRecentBooking(booking, now) ==
    /\ booking.timestamp.k # "undefined"
    /\ TypeofNumber(booking.lat)
    /\ TypeofNumber(booking.lng)
    /\ GetTime(booking.timestamp) # NaN
    /\ GetTime(booking.timestamp) >= cutoffTime(now)

\* the bookings without the filter
recentBookings_Unfiltered(bks, now) == bks

\* validBookings.filter(booking => ...)
recentBookings(bks, now) ==
    LET Keep(b) == IsRecentBooking(b, now) IN SelectSeq(bks, Keep)

\* the grouping without the trip code as key
bookingsByTrip_Ungrouped(bks, now, tripCode) == recentBookings(bks, now)

\* bookingsByTrip[tripCode]
bookingsByTrip(bks, now, tripCode) ==
    LET OfTrip(b) == b.tripCode = tripCode IN SelectSeq(recentBookings(bks, now), OfTrip)

\* Object.keys(bookingsByTrip)
TripsWithRecent(bks, now) == {b.tripCode : b \in Range(recentBookings(bks, now))}

\* the rider ids of the bookings of all trips
totalRidersPerTrip_AllTrips(bks, tripCode) == {b.riderId : b \in Range(bks)}

\* the rider ids of the well formed bookings of a trip only
totalRidersPerTrip_WellFormed(bks, tripCode) ==
    {b.riderId : b \in {x \in Range(bks) :
        x.tripCode = tripCode /\ x.timestamp.k = "date" /\ x.lat.k = "num" /\ x.lng.k = "num"}}

\* totalRidersPerTrip[tripCode], a set of rider ids (empty: no entry)
totalRidersPerTrip(bks, tripCode) ==
    {b.riderId : b \in {x \in Range(bks) : x.tripCode = tripCode /\ x.tripCode # "" /\ x.riderId # ""}}

\* the points of a trip: its recent bookings with the accuracy defaulted
PointOf(booking) ==
    [lat |-> booking.lat, lng |-> booking.lng, riderId |-> booking.riderId,
     timestamp |-> booking.timestamp,
     accuracy |-> IF booking.accuracy.k = "num" /\ booking.accuracy.v > 0
                  THEN booking.accuracy.v ELSE DefaultAccuracy]

PointsOf(bks, now, tripCode) ==
    LET recentTripRiders == bookingsByTrip(bks, now, tripCode)
    IN  [i \in 1..Len(recentTripRiders) |-> PointOf(recentTripRiders[i])]

\* recentTripRiders.length < MINIMUM_CLUSTER_SIZE: the trip is skipped
EnoughRiders(n) == ~(n < minimumClusterSize)

\* Math.min(1, strength), as a fraction [n, d]
Strength(clusterRiderCount, totalRidersForThisTrip) ==
    IF totalRidersForThisTrip > 0
    THEN IF clusterRiderCount < totalRidersForThisTrip
         THEN [n |-> clusterRiderCount, d |-> totalRidersForThisTrip]
         ELSE [n |-> 1, d |-> 1]
    ELSE [n |-> 0, d |-> 1]

\* totalRidersPerTrip[tripCode]?.size || clusterRiderCount
TotalRidersFor(bks, tripCode, clusterRiderCount) ==
    IF Cardinality(totalRidersPerTrip(bks, tripCode)) # 0
    THEN Cardinality(totalRidersPerTrip(bks, tripCode))
    ELSE clusterRiderCount

\* the clusters found by the scan of one trip (none when it is skipped)
FoundClusters(points) ==
    IF EnoughRiders(Len(points)) THEN tripSpecificClusters(points) ELSE << >>

NoCluster == [tripCode |-> ""]

\* the body of Object.keys(bookingsByTrip).forEach(tripCode => ...): the
\* result stored for the trip, or NoCluster when none is stored
TripResult(bks, now, tripCode) ==
    LET points == PointsOf(bks, now, tripCode)
        found == FoundClusters(points)
        largestIdx == largestCluster(found)
        largest == [i \in 1..Len(largestIdx) |-> points[largestIdx[i]]]
        center == calculateWeightedCenter(largest)
        clusterRiderCount == Len(largest)
        totalRidersForThisTrip == TotalRidersFor(bks, tripCode, clusterRiderCount)
    IN  IF found = << >> THEN NoCluster
        ELSE IF center = NullCenter THEN NoCluster
        ELSE [tripCode   |-> tripCode,
              center     |-> center,
              strength   |-> Strength(clusterRiderCount, totalRidersForThisTrip),
              riderCount |-> clusterRiderCount,
              totalRiders |-> totalRidersForThisTrip,
              timestamp  |-> DateOf(now),
              riders     |-> [i \in 1..Len(largest) |-> largest[i].riderId]]

calculateClusters(bks, trps, now) ==
    LET result == [tripCode \in TripsWithRecent(bks, now) |-> TripResult(bks, now, tripCode)]
    IN  [tripCode \in {t \in DOMAIN result : result[t] # NoCluster} |-> result[tripCode]]

(***************************************************************************)
(* calculateTripHealth(bookings, trips), the clock reading being now.      *)
(***************************************************************************)
\* validBookings.filter(b => b && b.tripCode === tripCode)
tripBookings(bks, tripCode) ==
    LET OfTrip(b) == b.tripCode = tripCode IN SelectSeq(bks, OfTrip)

\* the test without the comparison: the last valid booking wins
IsLater_LastWins(bookingTime, latestTimestamp) == bookingTime # NaN

\* the test that makes a booking the latest one seen so far
IsLater(bookingTime, latestTimestamp) ==
    bookingTime # NaN /\ bookingTime > latestTimestamp

\* the callback of tripBookings.forEach
LatestStep(acc, booking) ==
    IF /\ booking.timestamp.k # "undefined"
       /\ IsLater(GetTime(booking.timestamp), acc.latestTimestamp)
    THEN [latestTimestamp |-> GetTime(booking.timestamp),
          latestBookingTimestampStr |-> booking.timestamp]
    ELSE acc

RECURSIVE LatestFrom(_, _, _)
LatestFrom(tbs, i, acc) ==
    IF i > Len(tbs) THEN acc ELSE LatestFrom(tbs, i + 1, LatestStep(acc, tbs[i]))

Latest(tbs) ==
    LatestFrom(tbs, 1, [latestTimestamp |-> 0, latestBookingTimestampStr |-> Null])

\* the check left out
NoLatestFound_Never(acc) == FALSE

\* latestTimestamp === 0 || latestBookingTimestampStr === null
NoLatestFound(acc) ==
    acc.latestTimestamp = 0 \/ acc.latestBookingTimestampStr = Null

\* the status with the stale tier ending where the active tier ends
StatusOfAge_NoStaleTier(ageMs) ==
    IF ageMs <= ActiveMinutes * MsPerMinute THEN "ACTIVE"
    ELSE IF ageMs <= ActiveMinutes * MsPerMinute THEN "STALE"
    ELSE "INACTIVE"

\* the status chosen from (now - latestTimestamp) / (60 * 1000)
StatusOfAge(ageMs) ==
    IF ageMs <= ActiveMinutes * MsPerMinute THEN "ACTIVE"
    ELSE IF ageMs <= StaleMinutes * MsPerMinute THEN "STALE"
    ELSE "INACTIVE"

MessageOfAge(ageMs) ==
    IF StatusOfAge(ageMs) = "ACTIVE" THEN [text |-> "Trip active. Last update < 2 min ago.", min |-> 0]
    ELSE IF StatusOfAge(ageMs) = "STALE"
         THEN [text |-> "Possibly stale. Last update N min ago.", min |-> RoundMinutes(ageMs)]
         ELSE [text |-> "Inactive. Last update > 10 min ago (N min).", min |-> RoundMinutes(ageMs)]

HealthOf(bks, tripCode, now) ==
    LET tbs == tripBookings(bks, tripCode)
        acc == Latest(tbs)
    IN  IF Len(tbs) = 0
        THEN [status |-> "NO_SIGNAL",
              message |-> [text |-> "No riders have joined or updated location for this trip yet.", min |-> 0],
              lastUpdate |-> Null]
        ELSE IF NoLatestFound(acc)
        THEN [status |-> "NO_SIGNAL",
              message |-> [text |-> "Could not determine the last valid update time for this trip.", min |-> 0],
              lastUpdate |-> Null]
        ELSE [status |-> StatusOfAge(now - acc.latestTimestamp),
              message |-> MessageOfAge(now - acc.latestTimestamp),
              lastUpdate |-> acc.latestBookingTimestampStr]

\* the status computed for the trip codes of the bookings
calculateTripHealth_OfBookings(bks, trps, now) ==
    [tripCode \in {b.tripCode : b \in Range(bks)} |-> HealthOf(bks, tripCode, now)]

\* the status computed only for the registered trips that have bookings
calculateTripHealth_OnlyWithBookings(bks, trps, now) ==
    [tripCode \in {t.code : t \in Range(trps)} \cap {b.tripCode : b \in Range(bks)}
        |-> HealthOf(bks, tripCode, now)]

\* trips.forEach(trip => ...) filling tripHealth[trip.code]
calculateTripHealth(bks, trps, now) ==
    [tripCode \in {t.code : t \in Range(trps)} |-> HealthOf(bks, tripCode, now)]

(***************************************************************************)
(* Inputs.  A booking is one location update of the data file.             *)
(***************************************************************************)
Booking(tripCode, riderId, timestamp, lat, lng, accuracy) ==
    [tripCode |-> tripCode, riderId |-> riderId, timestamp |-> timestamp,
     lat |-> lat, lng |-> lng, accuracy |-> accuracy]

Trip(code) == [code |-> code]

WindowMs == RECENT_BOOKING_MINUTES * MsPerMinute

\* Bookings for the clustering: trip T1 has riders on a line at 0, 2, 5, 6
\* and 8 grid units (0-2, 5-6 and 6-8 are within the radius, 2-5 and 5-8
\* are not), the rider at 2 being exactly RECENT_BOOKING_MINUTES old at
\* Clock0, and rider r3 having two bookings, at 5 and at 6; two malformed
\* bookings of T1 and one booking of T2 lie among them.
ClusterPool ==
    { Booking("T1", "r1", DateOf(Clock0), Num(0), Num(0), Num(10)),
      Booking("T1", "r2", DateOf(Clock0 - WindowMs), Num(2), Num(0), Null),
      Booking("T1", "r3", DateOf(Clock0), Num(5), Num(0), Num(10)),
      Booking("T1", "r3", DateOf(Clock0), Num(6), Num(0), Num(10)),
      Booking("T1", "r5", DateOf(Clock0), Num(8), Num(0), Num(5)),
      Booking("T1", "r6", InvalidDate, Num(6), Num(0), Num(10)),
      Booking("T1", "r7", DateOf(Clock0), NonNumber, Num(0), Num(10)),
      Booking("T2", "r1", DateOf(Clock0), Num(0), Num(0), Num(10)) }

\* Bookings for the health status: timestamps at the epoch, at the two
\* thresholds, now, unparsable and missing; a booking with a bad coordinate;
\* bookings of a second trip and of a trip that is not registered.
HealthPool ==
    { Booking("T1", "r1", DateOf(0), Num(0), Num(0), Num(10)),
      Booking("T1", "r2", DateOf(Clock0 - StaleMinutes * MsPerMinute), Num(0), Num(0), Num(10)),
      Booking("T1", "r3", DateOf(Clock0 - ActiveMinutes * MsPerMinute), Num(0), Num(0), Num(10)),
      Booking("T1", "r4", DateOf(Clock0), Num(0), Num(0), Num(10)),
      Booking("T1", "r5", InvalidDate, Num(0), Num(0), Num(10)),
      Booking("T1", "r6", Undefined, Num(0), Num(0), Num(10)),
      Booking("T1", "r7", DateOf(Clock0), NonNumber, Num(0), Num(10)),
      Booking("T2", "r1", DateOf(Clock0 - ActiveMinutes * MsPerMinute), Num(0), Num(0), Num(10)),
      Booking("T2", "r2", InvalidDate, Num(0), Num(0), Num(10)),
      Booking("T3", "r1", DateOf(Clock0), Num(0), Num(0), Num(10)) }

\* Bookings for both calculations on one snapshot: two trips with recent
\* pings within the radius, one ping exactly RECENT_BOOKING_MINUTES old at
\* Clock0 and one three minutes old at the same place, one malformed.
SnapshotPool ==
    { Booking("T1", "r1", DateOf(Clock0), Num(0), Num(0), Num(10)),
      Booking("T1", "r2", DateOf(Clock0 - WindowMs), Num(2), Num(0), Num(10)),
      Booking("T1", "r4", InvalidDate, Num(1), Num(0), Num(10)),
      Booking("T1", "r6", DateOf(Clock0 - (ActiveMinutes + 1) * MsPerMinute), Num(2), Num(0), Num(10)),
      Booking("T2", "r1", DateOf(Clock0), Num(0), Num(0), Num(10)),
      Booking("T2", "r3", DateOf(Clock0), Num(1), Num(0), Num(10)) }

\* Bookings for the center: recent pings of one trip, p at the origin and
\* four around it within the radius of p, with accuracies 10, 10, missing,
\* 0 and 5.
CenterPool ==
    { Booking("T1", "p", DateOf(Clock0), Num(0), Num(0), Num(10)),
      Booking("T1", "q", DateOf(Clock0), Num(0), Num(2), Num(10)),
      Booking("T1", "r", DateOf(Clock0), Num(1), Num(-1), Null),
      Booking("T1", "s", DateOf(Clock0), Num(-1), Num(1), Num(0)),
      Booking("T1", "u", DateOf(Clock0), Num(-1), Num(0), Num(5)) }

Registries == { << >>, <<Trip("T1")>>, <<Trip("T1"), Trip("T2")>> }

\* the snapshots of at most n bookings of S, no booking twice
SeqsUpTo(S, n) ==
    {s \in UNION {[1..m -> S] : m \in 0..n} :
        \A i, j \in 1..Len(s) : i # j => s[i] # s[j]}

EmptyMap == [t \in {} |-> Null]

NotCalled == [at |-> -1, map |-> EmptyMap]

\* no answer of GET /api/fetchNewBookings, no result of fetchRiderData yet
NotFetched == [called |-> FALSE, since |-> 0, list |-> << >>]

\* no scan is running
NoScan == [points |-> << >>, index |-> 1, visited |-> {}, tripSpecificClusters |-> << >>,
           expanding |-> FALSE, queue |-> << >>, currentClusterIndices |-> << >>]

\* the content initializeDataFile writes, and the default readData returns
InitialData == [bookings |-> << >>, trips |-> << >>]

(***************************************************************************)
(* The state machine: a snapshot (bookings, trips) of the data file, the   *)
(* clock, and the last response of each calculation.                       *)
(***************************************************************************)
InitCommon ==
    /\ tripClusterResults = NotCalled
    /\ tripHealth = NotCalled
    /\ file = InitialData
    /\ requests = << >>
    /\ minimumClusterSize = MINIMUM_CLUSTER_SIZE
    /\ scan = NoScan
    /\ newBookings = NotFetched
    /\ uniqueData = NotFetched

\* the clock readings of a call
Clocks == {Clock0 + k * TickMs : k \in 0..MaxTicks}

\* calculateClusters applied to a snapshot at some clock reading
Init ==
    /\ bookings \in SeqsUpTo(ClusterPool, MaxPings)
    /\ trips = <<Trip("T1"), Trip("T2")>>
    /\ clock \in Clocks
    /\ InitCommon

\* calculateTripHealth applied to a snapshot while time passes
InitHealth ==
    /\ bookings \in SeqsUpTo(HealthPool, MaxHealthPings)
    /\ trips \in Registries
    /\ clock = Clock0
    /\ InitCommon

\* both calculations applied to a snapshot while time passes
InitSnapshot ==
    /\ bookings \in SeqsUpTo(SnapshotPool, MaxSnapshotPings)
    /\ trips \in Registries
    /\ clock = Clock0
    /\ InitCommon

\* calculateClusters on bookings chosen for their accuracies
InitCenter ==
    /\ bookings \in SeqsUpTo(CenterPool, MaxCenterPings)
    /\ trips = <<Trip("T1")>>
    /\ clock = Clock0
    /\ InitCommon

\* the handler keeping only the recent bookings in the data it was given
GetClusters_PrunesData ==
    /\ tripClusterResults' = [at |-> clock, map |-> calculateClusters(bookings, trips, clock)]
    /\ bookings' = recentBookings(bookings, clock)
    /\ UNCHANGED <<trips, clock, tripHealth, file, requests,
                   minimumClusterSize, scan, newBookings, uniqueData>>

\* GET /api/getClusters: calculateClusters on the snapshot
GetClusters ==
    /\ tripClusterResults' = [at |-> clock, map |-> calculateClusters(bookings, trips, clock)]
    /\ UNCHANGED <<bookings, trips, clock, tripHealth, file, requests,
                   minimumClusterSize, scan, newBookings, uniqueData>>

\* GET /api/getTripHealth: calculateTripHealth on the snapshot
GetTripHealth ==
    /\ tripHealth' = [at |-> clock, map |-> calculateTripHealth(bookings, trips, clock)]
    /\ UNCHANGED <<bookings, trips, clock, tripClusterResults, file, requests,
                   minimumClusterSize, scan, newBookings, uniqueData>>

\* time passes
Tick ==
    /\ clock < Clock0 + MaxTicks * TickMs
    /\ clock' = clock + TickMs
    /\ UNCHANGED <<bookings, trips, tripClusterResults, tripHealth, file,
                   requests, minimumClusterSize, scan, newBookings, uniqueData>>

Next == GetClusters

NextHealth == GetTripHealth \/ Tick

NextSnapshot == GetClusters \/ GetTripHealth \/ Tick

Spec == Init /\ [][Next]_vars

SpecHealth == InitHealth /\ [][NextHealth]_vars

SpecSnapshot == InitSnapshot /\ [][NextSnapshot]_vars

NextCenter == GetClusters

SpecCenter == InitCenter /\ [][NextCenter]_vars

(***************************************************************************)
(* The handlers that write the data file.  A handler runs until it awaits  *)
(* readData or writeData; other handlers run in between.  fs.writeFile     *)
(* truncates the file and then writes the content: in between the file    *)
(* does not parse, and readData returns the default structure.             *)
(***************************************************************************)
\* the file between the truncation and the write of a writeFile
Torn == [torn |-> TRUE]

\* readData(): the parsed content, or the default on a SyntaxError
readData(f) == IF f = Torn THEN InitialData ELSE f

\* code.trim().toUpperCase() on the codes of the request bodies
TrimUpper(code) ==
    IF code = "t1" THEN "T1"
    ELSE IF code = " iki490" THEN "IKI490"
    ELSE IF code = " " THEN "" ELSE code

\* !code || typeof code !== 'string' || code.trim() === ''
BlankString(str) == str = "" \/ TrimUpper(str) = ""

\* parseFloat of a field of the request body
parseFloat(x) == IF x.k = "num" THEN x ELSE NotANumber

\* isNaN(x)
isNaN(x) == x.k # "num"

\* the bodies of the requests to /api/logBooking
LogBody(code, riderId, lat, lng, acc) ==
    [code |-> code, riderId |-> riderId, lat |-> lat, lng |-> lng, acc |-> acc]

LogBodies ==
    { LogBody("T1", "r1", Num(0), Num(0), Num(10)),
      LogBody("t1", "r2", Num(2), Num(0), Undefined),
      LogBody("T2", "r1", Num(0), Num(0), Num(10)),
      LogBody("T1", "r1", Undefined, Num(0), Num(10)) }

\* the trip codes of the requests to /api/createTrip
CreateBodies == {"t1", " "}

\* a request being handled: its body, the await it is at, the local data
\* of the handler, its newBookingData (logBooking) or tripDeleted
\* (deleteTrip), and the status code sent (0: none)
Request(op, body, pc, data, booking, status) ==
    [op |-> op, body |-> body, pc |-> pc, data |-> data, booking |-> booking,
     status |-> status]

Pending(r, op, pc) ==
    r \in DOMAIN requests /\ requests[r].op = op /\ requests[r].pc = pc

\* the handler of request r goes on to pc with data and booking
Proceed(r, pc, data, booking, status) ==
    requests' = [requests EXCEPT ![r] =
        Request(requests[r].op, requests[r].body, pc, data, booking, status)]

\* the handler clearing the data file when it rejects the body
LogBookingRead_ClearsOnReject(body) ==
    /\ Len(requests) < MaxRequests
    /\ LET rejected == \/ BlankString(body.code) \/ BlankString(body.riderId)
                       \/ isNaN(parseFloat(body.lat)) \/ isNaN(parseFloat(body.lng))
       IN  /\ requests' = Append(requests,
                 IF rejected
                 THEN Request("logBooking", body, "done", Null, Null, 400)
                 ELSE Request("logBooking", body, "read", readData(file), Null, 0))
           /\ file' = IF rejected THEN InitialData ELSE file
    /\ UNCHANGED <<bookings, trips, clock, tripClusterResults, tripHealth,
                   minimumClusterSize, scan, newBookings, uniqueData>>

\* POST /api/logBooking up to the completion of readData(): the validation
\* of the body, then the read of the file
LogBookingRead(body) ==
    /\ Len(requests) < MaxRequests
    /\ requests' = Append(requests,
          IF \/ BlankString(body.code) \/ BlankString(body.riderId)
             \/ isNaN(parseFloat(body.lat)) \/ isNaN(parseFloat(body.lng))
          THEN Request("logBooking", body, "done", Null, Null, 400)
          ELSE Request("logBooking", body, "read", readData(file), Null, 0))
    /\ UNCHANGED <<bookings, trips, clock, tripClusterResults, tripHealth, file,
                   minimumClusterSize, scan, newBookings, uniqueData>>

\* data.bookings.findIndex(booking => same tripCode and riderId), 0: none
findIndex(bks, tripCode, riderId) ==
    LET found == {i \in 1..Len(bks) : bks[i].tripCode = tripCode /\ bks[i].riderId = riderId}
    IN  IF found = {} THEN 0 ELSE CHOOSE i \in found : \A j \in found : i <= j

\* the existing booking removed and the new one put at the end
Upsert_MovesToEnd(bks, newBookingData) ==
    LET Other(b) == ~(b.tripCode = newBookingData.tripCode /\ b.riderId = newBookingData.riderId)
    IN  Append(SelectSeq(bks, Other), newBookingData)

\* the upsert of newBookingData into data.bookings
Upsert(bks, newBookingData) ==
    LET existingBookingIndex == findIndex(bks, newBookingData.tripCode, newBookingData.riderId)
    IN  IF existingBookingIndex # 0
        THEN [bks EXCEPT ![existingBookingIndex] = newBookingData]
        ELSE Append(bks, newBookingData)

\* POST /api/logBooking from the data read to the call of writeData
LogBookingUpsert(r) ==
    /\ Pending(r, "logBooking", "read")
    /\ LET body == requests[r].body
           data == requests[r].data
           tripCode == TrimUpper(body.code)
           accuracy == IF isNaN(parseFloat(body.acc)) \/ parseFloat(body.acc).v < 0
                       THEN Null ELSE parseFloat(body.acc)
           newBookingData == Booking(tripCode, body.riderId, DateOf(clock),
                                     parseFloat(body.lat), parseFloat(body.lng), accuracy)
       IN  IF \E i \in 1..Len(data.trips) : data.trips[i].code = tripCode
           THEN Proceed(r, "write",
                        [data EXCEPT !.bookings = Upsert(data.bookings, newBookingData)],
                        newBookingData, 0)
           ELSE Proceed(r, "done", data, Null, 400)
    /\ UNCHANGED <<bookings, trips, clock, tripClusterResults, tripHealth, file,
                   minimumClusterSize, scan, newBookings, uniqueData>>

\* POST /api/createTrip up to the completion of readData()
CreateTripRead(tripCode) ==
    /\ Len(requests) < MaxRequests
    /\ requests' = Append(requests,
          IF BlankString(tripCode)
          THEN Request("createTrip", tripCode, "done", Null, Null, 400)
          ELSE Request("createTrip", tripCode, "read", readData(file), Null, 0))
    /\ UNCHANGED <<bookings, trips, clock, tripClusterResults, tripHealth, file,
                   minimumClusterSize, scan, newBookings, uniqueData>>

\* the push without the codeExists test
CreateTripPush_NoExistsTest(r) ==
    /\ Pending(r, "createTrip", "read")
    /\ LET data == requests[r].data
           code == TrimUpper(requests[r].body)
       IN  Proceed(r, "write", [data EXCEPT !.trips = Append(data.trips, Trip(code))],
                   Null, 0)
    /\ UNCHANGED <<bookings, trips, clock, tripClusterResults, tripHealth, file,
                   minimumClusterSize, scan, newBookings, uniqueData>>

\* POST /api/createTrip from the data read to the call of writeData
CreateTripPush(r) ==
    /\ Pending(r, "createTrip", "read")
    /\ LET data == requests[r].data
           code == TrimUpper(requests[r].body)
       IN  IF \E i \in 1..Len(data.trips) : data.trips[i].code = code
           THEN Proceed(r, "done", data, Null, 400)
           ELSE Proceed(r, "write", [data EXCEPT !.trips = Append(data.trips, Trip(code))],
                        Null, 0)
    /\ UNCHANGED <<bookings, trips, clock, tripClusterResults, tripHealth, file,
                   minimumClusterSize, scan, newBookings, uniqueData>>

\* the trip codes of the requests to /api/deleteTrip
DeleteBodies == {"t1", " "}

\* DELETE /api/deleteTrip up to the completion of readData()
DeleteTripRead(tripCode) ==
    /\ Len(requests) < MaxRequests
    /\ requests' = Append(requests,
          IF BlankString(tripCode)
          THEN Request("deleteTrip", tripCode, "done", Null, Null, 400)
          ELSE Request("deleteTrip", tripCode, "read", readData(file), Null, 0))
    /\ UNCHANGED <<bookings, trips, clock, tripClusterResults, tripHealth, file,
                   minimumClusterSize, scan, newBookings, uniqueData>>

\* the trip removed from data.trips, its bookings kept
WithoutTrip_KeepsBookings(data, codeToDelete) ==
    LET OtherTrip(trip) == trip.code # codeToDelete
    IN  [trips |-> SelectSeq(data.trips, OtherTrip), bookings |-> data.bookings]

\* data.trips and data.bookings without the code to delete
WithoutTrip(data, codeToDelete) ==
    LET OtherTrip(trip) == trip.code # codeToDelete
        OtherBooking(booking) == booking.tripCode # codeToDelete
    IN  [trips |-> SelectSeq(data.trips, OtherTrip),
         bookings |-> SelectSeq(data.bookings, OtherBooking)]

\* the handler answering 404 without a write when the trip is not found
DeleteTripFilter_ReturnsOnMissing(r) ==
    /\ Pending(r, "deleteTrip", "read")
    /\ LET data == requests[r].data
           codeToDelete == TrimUpper(requests[r].body)
           filtered == WithoutTrip(data, codeToDelete)
           tripDeleted == Len(filtered.trips) < Len(data.trips)
       IN  IF tripDeleted
           THEN Proceed(r, "write", filtered, [tripDeleted |-> TRUE], 0)
           ELSE Proceed(r, "done", data, [tripDeleted |-> FALSE], 404)
    /\ UNCHANGED <<bookings, trips, clock, tripClusterResults, tripHealth, file,
                   minimumClusterSize, scan, newBookings, uniqueData>>

\* DELETE /api/deleteTrip from the data read to the call of writeData; the
\* local tripDeleted is kept for the response
DeleteTripFilter(r) ==
    /\ Pending(r, "deleteTrip", "read")
    /\ LET data == requests[r].data
           codeToDelete == TrimUpper(requests[r].body)
           filtered == WithoutTrip(data, codeToDelete)
           tripDeleted == Len(filtered.trips) < Len(data.trips)
       IN  Proceed(r, "write", filtered, [tripDeleted |-> tripDeleted], 0)
    /\ UNCHANGED <<bookings, trips, clock, tripClusterResults, tripHealth, file,
                   minimumClusterSize, scan, newBookings, uniqueData>>

\* DELETE /api/resetData: writeData(initialData) without a read
ResetData ==
    /\ Len(requests) < MaxRequests
    /\ requests' = Append(requests, Request("resetData", Null, "write", InitialData, Null, 0))
    /\ UNCHANGED <<bookings, trips, clock, tripClusterResults, tripHealth, file,
                   minimumClusterSize, scan, newBookings, uniqueData>>

\* sampleTrips of /api/initData: the codes, and for each the center on the
\* grid and code.substring(0, 2)
sampleTrips ==
    << [code |-> "IKI490", center |-> [lat |-> 1450, lng |-> 751], prefix |-> "IK"],
       [code |-> "ABX123", center |-> [lat |-> 1467, lng |-> 744], prefix |-> "AB"] >>

sampleTripCodes == {sampleTrips[n].code : n \in 1..Len(sampleTrips)}

\* for (let i = 1; i <= 10; i++): the riders generated for a sample trip
SampleRidersPerTrip == 10

\* the outcomes of Math.random() taken into account: a draw fixes the
\* offsets, the accuracy and the age of every generated booking
SampleDraws == {1, 2}

\* the booking generated for rider i of the sample trip t
SampleBooking(t, i, draw, now) ==
    Booking(t.code, "Rider-" \o ToString(i) \o "-" \o t.prefix,
            DateOf(now - ((i * draw * 7000) % (60 * 1000))),
            Num(t.center.lat + ((i + draw) % 3) - 1),
            Num(t.center.lng + ((i * draw) % 3) - 1),
            Num(5 + ((i * draw * 7) % 46)))

\* the bookings generated for the sample trips from the one at index n on
RECURSIVE SampleBookingsFrom(_, _, _)
SampleBookingsFrom(n, draw, now) ==
    IF n > Len(sampleTrips) THEN << >>
    ELSE [i \in 1..SampleRidersPerTrip |-> SampleBooking(sampleTrips[n], i, draw, now)]
            \o SampleBookingsFrom(n + 1, draw, now)

\* data.trips after sampleTrips.forEach(t => push t unless registered)
RECURSIVE WithSampleTrips(_, _)
WithSampleTrips(trps, n) ==
    IF n > Len(sampleTrips) THEN trps
    ELSE WithSampleTrips(
             IF \E i \in 1..Len(trps) : trps[i].code = sampleTrips[n].code
             THEN trps ELSE Append(trps, Trip(sampleTrips[n].code)),
             n + 1)

\* POST /api/initData up to the completion of readData()
InitDataRead(draw) ==
    /\ Len(requests) < MaxRequests
    /\ requests' = Append(requests, Request("initData", draw, "read", readData(file), Null, 0))
    /\ UNCHANGED <<bookings, trips, clock, tripClusterResults, tripHealth, file,
                   minimumClusterSize, scan, newBookings, uniqueData>>

\* the fill without the filter of the old bookings of the sample trips
InitDataFill_KeepsOldBookings(r) ==
    /\ Pending(r, "initData", "read")
    /\ LET data == requests[r].data
       IN  Proceed(r, "write",
                   [trips |-> WithSampleTrips(data.trips, 1),
                    bookings |-> data.bookings \o SampleBookingsFrom(1, requests[r].body, clock)],
                   Null, 0)
    /\ UNCHANGED <<bookings, trips, clock, tripClusterResults, tripHealth, file,
                   minimumClusterSize, scan, newBookings, uniqueData>>

\* POST /api/initData from the data read to the call of writeData
InitDataFill(r) ==
    /\ Pending(r, "initData", "read")
    /\ LET data == requests[r].data
           NotSample(b) == b.tripCode \notin sampleTripCodes
       IN  Proceed(r, "write",
                   [trips |-> WithSampleTrips(data.trips, 1),
                    bookings |-> SelectSeq(data.bookings, NotSample)
                                    \o SampleBookingsFrom(1, requests[r].body, clock)],
                   Null, 0)
    /\ UNCHANGED <<bookings, trips, clock, tripClusterResults, tripHealth, file,
                   minimumClusterSize, scan, newBookings, uniqueData>>

\* writeData(data): fs.writeFile opens the file, which truncates it
WriteDataTruncate(r) ==
    /\ r \in DOMAIN requests /\ requests[r].pc = "write"
    /\ file' = Torn
    /\ Proceed(r, "truncated", requests[r].data, requests[r].booking, 0)
    /\ UNCHANGED <<bookings, trips, clock, tripClusterResults, tripHealth,
                   minimumClusterSize, scan, newBookings, uniqueData>>

\* writeData(data): the content is written, and the handler responds
WriteDataFinish(r) ==
    /\ r \in DOMAIN requests /\ requests[r].pc = "truncated"
    /\ file' = requests[r].data
    /\ Proceed(r, "done", requests[r].data, requests[r].booking,
               IF requests[r].op = "createTrip" THEN 201
               ELSE IF requests[r].op = "deleteTrip" /\ ~requests[r].booking.tripDeleted THEN 404
               ELSE 200)
    /\ UNCHANGED <<bookings, trips, clock, tripClusterResults, tripHealth,
                   minimumClusterSize, scan, newBookings, uniqueData>>

\* the server started on a new data file
InitStore ==
    /\ bookings = << >>
    /\ trips = << >>
    /\ clock = Clock0
    /\ InitCommon

NextStore ==
    \/ \E body \in LogBodies : LogBookingRead(body)
    \/ \E r \in 1..MaxRequests : LogBookingUpsert(r)
    \/ \E tripCode \in CreateBodies : CreateTripRead(tripCode)
    \/ \E r \in 1..MaxRequests : CreateTripPush(r)
    \/ \E tripCode \in DeleteBodies : DeleteTripRead(tripCode)
    \/ \E r \in 1..MaxRequests : DeleteTripFilter(r)
    \/ ResetData
    \/ \E draw \in SampleDraws : InitDataRead(draw)
    \/ \E r \in 1..MaxRequests : InitDataFill(r)
    \/ \E r \in 1..MaxRequests : WriteDataTruncate(r)
    \/ \E r \in 1..MaxRequests : WriteDataFinish(r)
    \/ Tick

SpecStore == InitStore /\ [][NextStore]_vars

(***************************************************************************)
(* The write handlers overlapping on a data file that may exist before     *)
(* the server starts: at most MaxWriters requests are made.                *)
(***************************************************************************)
MaxWriters == 2

\* the data files the server starts on: a new one, or one left with a trip
\* and a booking by an earlier run
WriterStores ==
    { InitialData,
      [bookings |-> << Booking("T1", "r1", DateOf(Clock0 - MsPerMinute), Num(0), Num(0), Num(10)) >>,
       trips |-> << Trip("T1") >>] }

\* the bodies of the requests to /api/logBooking, two of them with a blank
\* code or riderId
WriterLogBodies ==
    LogBodies \cup { LogBody(" ", "r1", Num(0), Num(0), Num(10)),
                     LogBody("T1", " ", Num(0), Num(0), Num(10)) }

\* the trip codes of the requests to /api/createTrip, one of them the code
\* of a sample trip
WriterCreateBodies == {"t1", " ", " iki490"}

InitWriters ==
    /\ bookings = << >>
    /\ trips = << >>
    /\ clock = Clock0
    /\ tripClusterResults = NotCalled
    /\ tripHealth = NotCalled
    /\ file \in WriterStores
    /\ requests = << >>
    /\ minimumClusterSize = MINIMUM_CLUSTER_SIZE
    /\ scan = NoScan
    /\ newBookings = NotFetched
    /\ uniqueData = NotFetched

NextWriters ==
    \/ Len(requests) < MaxWriters /\ \E body \in WriterLogBodies : LogBookingRead(body)
    \/ \E r \in 1..MaxWriters : LogBookingUpsert(r)
    \/ Len(requests) < MaxWriters /\ \E tripCode \in WriterCreateBodies : CreateTripRead(tripCode)
    \/ \E r \in 1..MaxWriters : CreateTripPush(r)
    \/ Len(requests) < MaxWriters /\ \E tripCode \in DeleteBodies : DeleteTripRead(tripCode)
    \/ \E r \in 1..MaxWriters : DeleteTripFilter(r)
    \/ Len(requests) < MaxWriters /\ ResetData
    \/ Len(requests) < MaxWriters /\ \E draw \in SampleDraws : InitDataRead(draw)
    \/ \E r \in 1..MaxWriters : InitDataFill(r)
    \/ \E r \in 1..MaxWriters : WriteDataTruncate(r)
    \/ \E r \in 1..MaxWriters : WriteDataFinish(r)

SpecWriters == InitWriters /\ [][NextWriters]_vars

(***************************************************************************)
(* One request run alone on a data file that exists before the server      *)
(* starts: a write handler, or GET /api/fetchNewBookings.  The file holds  *)
(* at most MaxStoreBookings bookings, among them bookings of unregistered  *)
(* trips and bookings whose timestamp is not a date.                       *)
(***************************************************************************)
MaxStoreBookings == 3

\* two bookings of T1 and T2 have the same timestamp; one booking has an
\* invalid timestamp, one has none, and one is of a sample trip
StorePool ==
    { Booking("T1", "r1", DateOf(Clock0 - MsPerMinute), Num(0), Num(0), Num(10)),
      Booking("T1", "r2", DateOf(Clock0 - 2 * MsPerMinute), Num(2), Num(0), Null),
      Booking("T2", "r1", DateOf(Clock0 - MsPerMinute), Num(0), Num(0), Num(10)),
      Booking("T1", "r3", InvalidDate, Num(1), Num(0), Num(10)),
      Booking("T2", "r2", Undefined, Num(1), Num(0), Num(10)),
      Booking("IKI490", "Rider-1-IK", DateOf(Clock0 - 3 * MsPerMinute), Num(1450), Num(751), Num(10)) }

StoreRegistries ==
    { << >>, <<Trip("T1")>>, <<Trip("T1"), Trip("T2")>>, <<Trip("T2"), Trip("IKI490"), Trip("T1")>> }

\* req.query.since: missing, not a number, negative, zero, or an instant
SinceValues ==
    { Undefined, NonNumber, Num(-1), Num(0),
      Num(Clock0 - 2 * MsPerMinute), Num(Clock0 - MsPerMinute) }

\* parseInt(req.query.since || 0), then 0 for NaN and for negative numbers
SinceOf(raw) ==
    LET parsed == IF raw.k = "undefined" THEN Num(0)
                  ELSE IF raw.k = "num" THEN raw ELSE NotANumber
    IN  IF isNaN(parsed) \/ parsed.v < 0 THEN 0 ELSE parsed.v

\* the filter with >= for >
IsNewBooking_NotStrict(booking, since) ==
    /\ booking.timestamp.k # "undefined"
    /\ GetTime(booking.timestamp) # NaN
    /\ GetTime(booking.timestamp) >= since

\* the filter of fetchNewBookings
IsNewBooking(booking, since) ==
    /\ booking.timestamp.k # "undefined"
    /\ GetTime(booking.timestamp) # NaN
    /\ GetTime(booking.timestamp) > since

\* booking put into a list sorted newest first, behind the bookings that
\* are not older
RECURSIVE InsertNewestFirst(_, _)
InsertNewestFirst(sorted, booking) ==
    IF sorted = << >> THEN <<booking>>
    ELSE IF GetTime(Head(sorted).timestamp) >= GetTime(booking.timestamp)
         THEN <<Head(sorted)>> \o InsertNewestFirst(Tail(sorted), booking)
         ELSE <<booking>> \o sorted

\* list.sort((a, b) => new Date(b.timestamp) - new Date(a.timestamp)), the
\* sort being stable
RECURSIVE SortNewestFirst(_)
SortNewestFirst(list) ==
    IF list = << >> THEN << >>
    ELSE InsertNewestFirst(SortNewestFirst(SubSeq(list, 1, Len(list) - 1)), list[Len(list)])

\* GET /api/fetchNewBookings?since=...: the response is kept in newBookings
FetchNewBookings(raw) ==
    /\ requests = << >>
    /\ LET since == SinceOf(raw)
           data == readData(file)
           IsNew(booking) == IsNewBooking(booking, since)
       IN  newBookings' = [called |-> TRUE, since |-> raw,
                           list |-> SortNewestFirst(SelectSeq(data.bookings, IsNew))]
    /\ UNCHANGED <<bookings, trips, clock, tripClusterResults, tripHealth, file, requests,
                   minimumClusterSize, scan, uniqueData>>

\* bookings and trips keep the content the file has at the start
InitAlone ==
    /\ bookings \in SeqsUpTo(StorePool, MaxStoreBookings)
    /\ trips \in StoreRegistries
    /\ clock = Clock0
    /\ tripClusterResults = NotCalled
    /\ tripHealth = NotCalled
    /\ file = [bookings |-> bookings, trips |-> trips]
    /\ requests = << >>
    /\ minimumClusterSize = MINIMUM_CLUSTER_SIZE
    /\ scan = NoScan
    /\ newBookings = NotFetched
    /\ uniqueData = NotFetched

NextAlone ==
    \/ requests = << >> /\ \E body \in WriterLogBodies : LogBookingRead(body)
    \/ LogBookingUpsert(1)
    \/ requests = << >> /\ \E tripCode \in WriterCreateBodies : CreateTripRead(tripCode)
    \/ CreateTripPush(1)
    \/ requests = << >> /\ \E tripCode \in DeleteBodies : DeleteTripRead(tripCode)
    \/ DeleteTripFilter(1)
    \/ requests = << >> /\ ResetData
    \/ requests = << >> /\ \E draw \in SampleDraws : InitDataRead(draw)
    \/ InitDataFill(1)
    \/ WriteDataTruncate(1)
    \/ WriteDataFinish(1)
    \/ \E raw \in SinceValues : FetchNewBookings(raw)

SpecAlone == InitAlone /\ [][NextAlone]_vars

(***************************************************************************)
(* The dashboard's fetchRiderData (public/script.js) on the answer of      *)
(* GET /api/fetchData: the bookings of the data file.                      *)
(***************************************************************************)
\* Bookings of trips A and A-B by riders B-C and C, and of T1: rider r1
\* twice, rider r2 with an invalid timestamp, rider r3 without one
ClientPool ==
    { Booking("A", "B-C", DateOf(Clock0 - MsPerMinute), Num(0), Num(0), Num(10)),
      Booking("A-B", "C", DateOf(Clock0), Num(2), Num(0), Num(10)),
      Booking("T1", "r1", DateOf(Clock0 - 2 * MsPerMinute), Num(0), Num(0), Num(10)),
      Booking("T1", "r1", DateOf(Clock0), Num(1), Num(0), Num(10)),
      Booking("T1", "r2", InvalidDate, Num(1), Num(0), Num(10)),
      Booking("T1", "r3", Undefined, Num(1), Num(0), Num(10)) }

ClientRegistry == <<Trip("A"), Trip("A-B"), Trip("T1")>>

\* `${booking.tripCode}-${booking.riderId}`
KeyOf(booking) == booking.tripCode \o "-" \o booking.riderId

\* !booking.tripCode || !booking.riderId || !booking.timestamp, or a
\* timestamp that is not a date
SkippedByClient(booking) ==
    \/ booking.tripCode = "" \/ booking.riderId = ""
    \/ booking.timestamp.k \in {"undefined", "null"}
    \/ GetTime(booking.timestamp) = NaN

\* uniqueRiders after data.forEach from index i on: the entries, in the
\* order their keys were inserted
RECURSIVE ForEachBooking(_, _, _)
ForEachBooking(uniqueRiders, data, i) ==
    IF i > Len(data) THEN uniqueRiders
    ELSE LET booking == data[i]
             key == KeyOf(booking)
             at == {n \in 1..Len(uniqueRiders) : uniqueRiders[n].key = key}
         IN  IF SkippedByClient(booking) THEN ForEachBooking(uniqueRiders, data, i + 1)
             ELSE IF at = {}
                  THEN ForEachBooking(Append(uniqueRiders, [key |-> key, booking |-> booking]),
                                      data, i + 1)
             ELSE LET n == CHOOSE n \in at : TRUE
                  IN  IF GetTime(booking.timestamp) > GetTime(uniqueRiders[n].booking.timestamp)
                      THEN ForEachBooking([uniqueRiders EXCEPT ![n].booking = booking], data, i + 1)
                      ELSE ForEachBooking(uniqueRiders, data, i + 1)

\* Object.values(uniqueRiders)
fetchRiderData(data) ==
    LET uniqueRiders == ForEachBooking(<< >>, data, 1)
    IN  [n \in 1..Len(uniqueRiders) |-> uniqueRiders[n].booking]

\* fetchRiderData(): GET /api/fetchData answers data.bookings of the file
FetchRiderData ==
    /\ uniqueData' = [called |-> TRUE, since |-> 0,
                      list |-> fetchRiderData(readData(file).bookings)]
    /\ UNCHANGED <<bookings, trips, clock, tripClusterResults, tripHealth, file, requests,
                   minimumClusterSize, scan, newBookings>>

InitClient ==
    /\ bookings \in SeqsUpTo(ClientPool, MaxStoreBookings)
    /\ trips = ClientRegistry
    /\ clock = Clock0
    /\ tripClusterResults = NotCalled
    /\ tripHealth = NotCalled
    /\ file = [bookings |-> bookings, trips |-> trips]
    /\ requests = << >>
    /\ minimumClusterSize = MINIMUM_CLUSTER_SIZE
    /\ scan = NoScan
    /\ newBookings = NotFetched
    /\ uniqueData = NotFetched

NextClient == FetchRiderData

SpecClient == InitClient /\ [][NextClient]_vars

(***************************************************************************)
(* The scan of the points of one trip, step by step: scan.index is the     *)
(* index of points.forEach, scan.expanding tells whether the while loop    *)
(* of a cluster is running, scan.currentClusterIndices holds the indices    *)
(* of the cluster in the order they were added.  MINIMUM_CLUSTER_SIZE has   *)
(* any value from 1 to MaxMinimumSize.                                     *)
(***************************************************************************)
\* Points in the plane: c, a2 and y within the radius of each other, b
\* within the radius of c and y, and the chain b - x - z along the first
\* axis; without b the pool falls into the two groups c, a2, y and x, z.
ScanPool ==
    { PointOf(Booking("T1", "c", DateOf(Clock0), Num(0), Num(0), Num(10))),
      PointOf(Booking("T1", "z", DateOf(Clock0), Num(6), Num(0), Num(10))),
      PointOf(Booking("T1", "a2", DateOf(Clock0), Num(0), Num(2), Num(10))),
      PointOf(Booking("T1", "b", DateOf(Clock0), Num(2), Num(0), Num(10))),
      PointOf(Booking("T1", "x", DateOf(Clock0), Num(4), Num(0), Num(10))),
      PointOf(Booking("T1", "y", DateOf(Clock0), Num(1), Num(1), Num(10))) }

\* the scan of a trip with at least MINIMUM_CLUSTER_SIZE recent bookings
InitScan ==
    /\ bookings = << >>
    /\ trips = << >>
    /\ clock = Clock0
    /\ tripClusterResults = NotCalled
    /\ tripHealth = NotCalled
    /\ file = InitialData
    /\ requests = << >>
    /\ newBookings = NotFetched
    /\ uniqueData = NotFetched
    /\ minimumClusterSize \in 1..MaxMinimumSize
    /\ \E points \in SeqsUpTo(ScanPool, MaxScanPoints) :
          /\ EnoughRiders(Len(points))
          /\ scan = [NoScan EXCEPT !.points = points]

\* the callback of points.forEach up to the while loop
ScanVisit ==
    /\ ~scan.expanding
    /\ scan.index <= Len(scan.points)
    /\ LET index == scan.index
           neighborIndices == getNeighbors(index, scan.points, CLUSTER_RADIUS_METERS)
       IN  IF index \in scan.visited
           THEN scan' = [scan EXCEPT !.index = index + 1]
           ELSE IF IsCore(neighborIndices)
           THEN scan' = [scan EXCEPT !.visited = scan.visited \cup {index},
                                     !.expanding = TRUE,
                                     !.queue = neighborIndices,
                                     !.currentClusterIndices = <<index>>]
           ELSE scan' = [scan EXCEPT !.visited = scan.visited \cup {index},
                                     !.index = index + 1]
    /\ UNCHANGED <<bookings, trips, clock, tripClusterResults, tripHealth, file, requests,
                   minimumClusterSize, newBookings, uniqueData>>

\* one iteration of while (queue.length > 0)
ScanExpand ==
    /\ scan.expanding
    /\ scan.queue # << >>
    /\ LET st == ExpandStep(scan.points, [queue   |-> scan.queue,
                                          visited |-> scan.visited,
                                          cluster |-> scan.currentClusterIndices])
       IN  scan' = [scan EXCEPT !.queue = st.queue,
                                !.visited = st.visited,
                                !.currentClusterIndices = st.cluster]
    /\ UNCHANGED <<bookings, trips, clock, tripClusterResults, tripHealth, file, requests,
                   minimumClusterSize, newBookings, uniqueData>>

\* the end of the while loop: tripSpecificClusters.push(currentClusterPoints)
ScanPush ==
    /\ scan.expanding
    /\ scan.queue = << >>
    /\ scan' = [scan EXCEPT !.tripSpecificClusters = Append(@, scan.currentClusterIndices),
                            !.expanding = FALSE,
                            !.currentClusterIndices = << >>,
                            !.index = scan.index + 1]
    /\ UNCHANGED <<bookings, trips, clock, tripClusterResults, tripHealth, file, requests,
                   minimumClusterSize, newBookings, uniqueData>>

NextScan == ScanVisit \/ ScanExpand \/ ScanPush

SpecScan == InitScan /\ [][NextScan]_vars

\* the scan is synchronous code: forEach and the while loop take their next
\* step as long as there is one
SpecScanFair == SpecScan /\ WF_vars(NextScan)

(***************************************************************************)
(* Properties.  The definitions below state what the specification says  *)
(* of a ping, independently of the filters of the code.                    *)
(***************************************************************************)
ValidInstant(ts) == ts.k = "date"

WellFormed(b) == ValidInstant(b.timestamp) /\ b.lat.k = "num" /\ b.lng.k = "num"

FreshAt(b, now) == WellFormed(b) /\ now - b.timestamp.v <= WindowMs

FreshIndices(tripCode, now) ==
    {i \in 1..Len(bookings) : bookings[i].tripCode = tripCode /\ FreshAt(bookings[i], now)}

ClustersCalled == tripClusterResults.at # -1

HealthCalled == tripHealth.at # -1

Emitted == DOMAIN tripClusterResults.map

TripCodes == {"T1", "T2", "T3"}

\* the clusters the scan finds for a trip at the time of the last call
FoundAtCall(tripCode) ==
    FoundClusters(PointsOf(bookings, tripClusterResults.at, tripCode))

C2_RidersAreFreshPings ==
    ClustersCalled =>
        \A t \in Emitted :
            LET c == tripClusterResults.map[t]
            IN  /\ \A k \in 1..Len(c.riders) :
                      \E i \in FreshIndices(t, tripClusterResults.at) :
                          bookings[i].riderId = c.riders[k]
                /\ Len(c.riders) <= Cardinality(FreshIndices(t, tripClusterResults.at))

\* a cluster is emitted that keeps a ping exactly RECENT_BOOKING_MINUTES old
\* while a malformed ping of the same trip lies within the radius of a member
C2_Witness ==
    /\ ClustersCalled
    /\ "T1" \in Emitted
    /\ \E i \in FreshIndices("T1", tripClusterResults.at) :
          /\ tripClusterResults.at - bookings[i].timestamp.v = WindowMs
          /\ \E k \in 1..Len(tripClusterResults.map["T1"].riders) :
                tripClusterResults.map["T1"].riders[k] = bookings[i].riderId
    /\ \E j \in 1..Len(bookings) :
          /\ bookings[j].tripCode = "T1" /\ ~WellFormed(bookings[j])
          /\ bookings[j].riderId \notin Range(tripClusterResults.map["T1"].riders)

\* C3: a trip with fewer than MINIMUM_CLUSTER_SIZE recent pings has no entry
\* in the result.
C3_FewRecentPingsNoEntry ==
    ClustersCalled =>
        \A t \in TripCodes :
            Cardinality(FreshIndices(t, tripClusterResults.at)) < MINIMUM_CLUSTER_SIZE
                => t \notin Emitted

\* a trip with exactly one recent ping is absent while another trip has a
\* cluster
C3_Witness ==
    /\ ClustersCalled
    /\ \E t, u \in TripCodes :
          /\ Cardinality(FreshIndices(t, tripClusterResults.at)) = 1
          /\ t \notin Emitted
          /\ u \in Emitted

\* C4: the emitted cluster is one of maximum size among the clusters the
\* scan found for the trip.
C4_LargestClusterEmitted ==
    ClustersCalled =>
        \A t \in Emitted :
            LET found == FoundAtCall(t)
            IN  /\ \A k \in 1..Len(found) : Len(found[k]) <= tripClusterResults.map[t].riderCount
                /\ \E k \in 1..Len(found) : Len(found[k]) = tripClusterResults.map[t].riderCount

\* the scan found a smaller cluster before a larger one
C4_Witness ==
    /\ ClustersCalled
    /\ "T1" \in Emitted
    /\ LET found == FoundAtCall("T1")
       IN  Len(found) >= 2 /\ Len(found[1]) < Len(found[2])

\* the riders of the k-th cluster found for a trip
RidersOfFound(tripCode, k) ==
    LET points == PointsOf(bookings, tripClusterResults.at, tripCode)
        found == FoundAtCall(tripCode)
    IN  [i \in 1..Len(found[k]) |-> points[found[k][i]].riderId]

\* C5: among the clusters of maximum size the one found first is emitted.
C5_FirstLargestWins ==
    ClustersCalled =>
        \A t \in Emitted :
            LET found == FoundAtCall(t)
                IsMax(k) == \A m \in 1..Len(found) : Len(found[m]) <= Len(found[k])
                first == CHOOSE k \in 1..Len(found) :
                            IsMax(k) /\ \A m \in 1..(k - 1) : ~IsMax(m)
            IN  tripClusterResults.map[t].riders = RidersOfFound(t, first)

\* two clusters of the same, maximum size were found, with different riders
C5_Witness ==
    /\ ClustersCalled
    /\ "T1" \in Emitted
    /\ LET found == FoundAtCall("T1")
       IN  /\ Len(found) = 2 /\ Len(found[1]) = Len(found[2])
           /\ RidersOfFound("T1", 1) # RidersOfFound("T1", 2)

(***************************************************************************)
(* Properties of calculateTripHealth.                                      *)
(***************************************************************************)
Registered == {trips[i].code : i \in 1..Len(trips)}

\* the indices of the pings of a trip whose timestamp is a valid instant
ValidIndices(tripCode) ==
    {i \in 1..Len(bookings) :
        bookings[i].tripCode = tripCode /\ ValidInstant(bookings[i].timestamp)}

\* the instant of the most recent valid ping of a trip that has one
MostRecent(tripCode) ==
    LET i == CHOOSE i \in ValidIndices(tripCode) :
                \A j \in ValidIndices(tripCode) :
                    bookings[j].timestamp.v <= bookings[i].timestamp.v
    IN  bookings[i].timestamp.v

TierOfAge(a) ==
    IF a <= 2 * MsPerMinute THEN "ACTIVE"
    ELSE IF a <= 10 * MsPerMinute THEN "STALE" ELSE "INACTIVE"

\* C6: a trip whose most recent valid ping has age a is ACTIVE when
\* a <= 2 min, STALE when 2 min < a <= 10 min and INACTIVE when a > 10 min.
C6_TierFromMostRecentPing ==
    HealthCalled =>
        \A t \in DOMAIN tripHealth.map :
            ValidIndices(t) # {} =>
                tripHealth.map[t].status = TierOfAge(tripHealth.at - MostRecent(t))

\* C7: the keys of the result are exactly the registered trip codes and each
\* has one of the four statuses.
C7_OneStatusPerRegisteredTrip ==
    HealthCalled =>
        /\ DOMAIN tripHealth.map = Registered
        /\ \A t \in Registered :
              tripHealth.map[t].status \in {"ACTIVE", "STALE", "INACTIVE", "NO_SIGNAL"}

\* two trips are registered, one with pings of different ages and one
\* without any, while a ping carries a code that is not registered
C7_Witness ==
    /\ HealthCalled
    /\ Registered = {"T1", "T2"}
    /\ \E i, j \in ValidIndices("T1") : bookings[i].timestamp.v < bookings[j].timestamp.v
    /\ \A i \in 1..Len(bookings) : bookings[i].tripCode # "T2"
    /\ \E i \in 1..Len(bookings) : bookings[i].tripCode = "T3"
    /\ tripHealth.map["T1"].status # tripHealth.map["T2"].status

\* C8: the status of a registered trip is NO_SIGNAL if and only if no ping
\* of the trip has a valid timestamp.
C8_NoSignalIffNoValidPing ==
    HealthCalled =>
        \A t \in DOMAIN tripHealth.map :
            (tripHealth.map[t].status = "NO_SIGNAL") <=> (ValidIndices(t) = {})

\* C9: lastUpdate is null exactly when the status is NO_SIGNAL, and
\* otherwise it is the raw timestamp of the most recent valid ping.
C9_LastUpdateIsMostRecent ==
    HealthCalled =>
        \A t \in DOMAIN tripHealth.map :
            LET h == tripHealth.map[t]
            IN  /\ (h.lastUpdate = Null) <=> (h.status = "NO_SIGNAL")
                /\ h.status # "NO_SIGNAL" =>
                      /\ \E i \in ValidIndices(t) : bookings[i].timestamp = h.lastUpdate
                      /\ h.lastUpdate.v = MostRecent(t)

\* one trip has its status from a most recent ping that is not the last of
\* its pings in the input, another trip is NO_SIGNAL
C9_Witness ==
    /\ HealthCalled
    /\ \E t, u \in DOMAIN tripHealth.map :
          /\ tripHealth.map[u].status = "NO_SIGNAL"
          /\ tripHealth.map[t].status # "NO_SIGNAL"
          /\ \E i, j \in ValidIndices(t) :
                /\ i < j
                /\ bookings[j].timestamp.v < bookings[i].timestamp.v
                /\ tripHealth.map[t].lastUpdate = bookings[i].timestamp

\* the bookings without the i-th one
RemoveAt(s, i) == [k \in 1..(Len(s) - 1) |-> IF k < i THEN s[k] ELSE s[k + 1]]

BadTimestamp(b) == ~ValidInstant(b.timestamp)

Malformed(b) == BadTimestamp(b) \/ b.lat.k # "num" \/ b.lng.k # "num"

\* C10 (as stated): removing a malformed ping (bad timestamp or bad
\* coordinates) leaves the output of calculateTripHealth unchanged.
C10_MalformedPingNoInfluence ==
    HealthCalled =>
        \A i \in 1..Len(bookings) :
            Malformed(bookings[i]) =>
                calculateTripHealth(RemoveAt(bookings, i), trips, tripHealth.at) = tripHealth.map

\* C10 (amended): removing a ping whose timestamp is missing or does not
\* parse leaves the status and the lastUpdate of every trip unchanged.
C10_BadTimestampNoInfluence ==
    HealthCalled =>
        \A i \in 1..Len(bookings) :
            BadTimestamp(bookings[i]) =>
                LET without == calculateTripHealth(RemoveAt(bookings, i), trips, tripHealth.at)
                IN  /\ DOMAIN without = DOMAIN tripHealth.map
                    /\ \A t \in DOMAIN without :
                          /\ without[t].status = tripHealth.map[t].status
                          /\ without[t].lastUpdate = tripHealth.map[t].lastUpdate

\* a registered trip has a ping with a bad timestamp, alone or next to a
\* valid one
C10_Witness ==
    /\ HealthCalled
    /\ \E i, j \in 1..Len(bookings) :
          /\ bookings[i].tripCode \in Registered
          /\ bookings[i].timestamp = InvalidDate
          /\ bookings[j].tripCode = bookings[i].tripCode
          /\ ValidInstant(bookings[j].timestamp)
          /\ tripHealth.map[bookings[i].tripCode].status # "NO_SIGNAL"
    /\ \E i \in 1..Len(bookings) :
          /\ bookings[i].tripCode \in Registered
          /\ BadTimestamp(bookings[i])
          /\ ValidIndices(bookings[i].tripCode) = {}

(***************************************************************************)
(* Properties of calculateClusters on malformed pings and rider counts.    *)
(***************************************************************************)
\* C11 (as stated): removing a malformed ping (bad timestamp or bad
\* coordinates) from the input leaves every emitted cluster unchanged,
\* its totalRiders and its strength included.
C11_MalformedPingExcluded ==
    ClustersCalled =>
        \A i \in 1..Len(bookings) :
            Malformed(bookings[i]) =>
                calculateClusters(RemoveAt(bookings, i), trips, tripClusterResults.at)
                    = tripClusterResults.map

\* C11 (amended): removing a malformed ping leaves the emitted trips and,
\* for each of them, the center, the riderCount, the riders and the
\* timestamp unchanged; totalRiders and strength count the riderId of
\* every ping of the trip, the malformed ones included.
C11_MalformedPingOutsideClusters ==
    ClustersCalled =>
        \A i \in 1..Len(bookings) :
            Malformed(bookings[i]) =>
                LET without == calculateClusters(RemoveAt(bookings, i), trips,
                                                 tripClusterResults.at)
                IN  /\ DOMAIN without = Emitted
                    /\ \A t \in Emitted :
                          /\ without[t].center = tripClusterResults.map[t].center
                          /\ without[t].riderCount = tripClusterResults.map[t].riderCount
                          /\ without[t].riders = tripClusterResults.map[t].riders
                          /\ without[t].timestamp = tripClusterResults.map[t].timestamp
                          /\ without[t].totalRiders <= tripClusterResults.map[t].totalRiders

\* a cluster is emitted for a trip that has a malformed ping within the
\* radius of a member, from a rider no other ping of the trip has: without
\* that ping totalRiders is smaller
C11_Witness ==
    /\ ClustersCalled
    /\ "T1" \in Emitted
    /\ \E i \in 1..Len(bookings) :
          /\ bookings[i].tripCode = "T1"
          /\ BadTimestamp(bookings[i])
          /\ bookings[i].riderId \notin Range(tripClusterResults.map["T1"].riders)
          /\ calculateClusters(RemoveAt(bookings, i), trips,
                 tripClusterResults.at)["T1"].totalRiders
                < tripClusterResults.map["T1"].totalRiders

\* the distinct rider ids over all pings of a trip in the input
RiderIdsOf(tripCode) ==
    {bookings[i].riderId : i \in {j \in 1..Len(bookings) : bookings[j].tripCode = tripCode}}

\* C12: for every emitted cluster riderCount is the size of the winning
\* cluster, totalRiders is the number of distinct riderIds over all pings of
\* the trip in the unfiltered input, and strength is
\* min(1, riderCount / totalRiders).
C12_CountsAndStrength ==
    ClustersCalled =>
        \A t \in Emitted :
            LET c == tripClusterResults.map[t]
                found == FoundAtCall(t)
            IN  /\ c.riderCount = Len(c.riders)
                /\ \E k \in 1..Len(found) :
                      c.riders = RidersOfFound(t, k) /\ c.riderCount = Len(found[k])
                /\ c.totalRiders = Cardinality(RiderIdsOf(t))
                /\ IF c.riderCount >= c.totalRiders
                   THEN c.strength.n = c.strength.d
                   ELSE c.strength.n * c.totalRiders = c.strength.d * c.riderCount

\* a cluster is emitted for a trip that also has a well formed ping older
\* than the window and a malformed ping, both from riders outside the
\* cluster, so that strength is below 1
C12_Witness ==
    /\ ClustersCalled
    /\ "T1" \in Emitted
    /\ \E i, j \in 1..Len(bookings) :
          /\ bookings[i].tripCode = "T1" /\ bookings[j].tripCode = "T1"
          /\ WellFormed(bookings[i]) /\ ~FreshAt(bookings[i], tripClusterResults.at)
          /\ Malformed(bookings[j])
          /\ bookings[i].riderId \notin Range(tripClusterResults.map["T1"].riders)
          /\ bookings[j].riderId \notin Range(tripClusterResults.map["T1"].riders)
    /\ tripClusterResults.map["T1"].totalRiders = tripClusterResults.map["T1"].riderCount + 2
    /\ tripClusterResults.map["T1"].strength.n < tripClusterResults.map["T1"].strength.d

C14_HealthEmptyOnEmptyInput ==
    (HealthCalled /\ (trips = << >> \/ bookings = << >>))
        => tripHealth.map = EmptyMap

\* C14 (amended): calculateTripHealth returns an empty map whenever the
\* trip registry is empty; when the ping list is empty it returns NO_SIGNAL
\* with a null lastUpdate for every registered trip.
C14_HealthOnEmptyInput ==
    /\ (HealthCalled /\ trips = << >>) => tripHealth.map = EmptyMap
    /\ (HealthCalled /\ bookings = << >>) =>
          /\ DOMAIN tripHealth.map = Registered
          /\ \A t \in Registered :
                /\ tripHealth.map[t].status = "NO_SIGNAL"
                /\ tripHealth.map[t].lastUpdate = Null

\* the status of two registered trips was computed from an empty ping list
C14_Witness ==
    /\ HealthCalled
    /\ bookings = << >>
    /\ Registered = {"T1", "T2"}
    /\ tripHealth.map # EmptyMap
    /\ \A t \in Registered : tripHealth.map[t].status = "NO_SIGNAL"

(***************************************************************************)
(* Properties of both calculations as functions of their arguments.  The   *)
(* arguments of a call are the snapshot (bookings, trips), which no step   *)
(* changes; the clock is read inside the call.                             *)
(***************************************************************************)
\* C15: the output of calculateClusters and of calculateTripHealth is a
\* function of their explicit inputs only: a call made with the same pings
\* and trips as the call before returns the same output, no clock read in
\* between changing it.
C15_SameArgumentsSameOutput ==
    [][/\ (HealthCalled /\ HealthCalled') => tripHealth'.map = tripHealth.map
       /\ (ClustersCalled /\ ClustersCalled') =>
              tripClusterResults'.map = tripClusterResults.map]_vars

\* the pings of one trip, in their order in the input
OwnPings(tripCode) ==
    LET OfTrip(b) == b.tripCode = tripCode IN SelectSeq(bookings, OfTrip)

\* C16: the cluster and the health status computed for a trip are those
\* computed from the trip's own pings alone, in the same order and at the
\* same time: the pings of other trips, whatever they are and wherever they
\* lie in the input, change neither.
C16_OtherTripsNoInfluence ==
    /\ ClustersCalled =>
          \A t \in TripCodes :
              LET alone == calculateClusters(OwnPings(t), trips, tripClusterResults.at)
              IN  /\ (t \in DOMAIN alone) <=> (t \in Emitted)
                  /\ t \in Emitted => alone[t] = tripClusterResults.map[t]
    /\ HealthCalled =>
          \A t \in DOMAIN tripHealth.map :
              calculateTripHealth(OwnPings(t), trips, tripHealth.at)[t] = tripHealth.map[t]

\* both calculations ran on a snapshot in which the pings of two registered
\* trips alternate, each trip having a cluster
C16_Witness ==
    /\ ClustersCalled /\ HealthCalled
    /\ Emitted = {"T1", "T2"}
    /\ Registered = {"T1", "T2"}
    /\ \E i, j, k \in 1..Len(bookings) :
          /\ i < j /\ j < k
          /\ bookings[i].tripCode = "T1"
          /\ bookings[j].tripCode = "T2"
          /\ bookings[k].tripCode = "T1"
    /\ tripHealth.map["T1"].status = "ACTIVE" /\ tripHealth.map["T2"].status = "ACTIVE"

(***************************************************************************)
(* Properties of the store under concurrent requests.                      *)
(***************************************************************************)
\* the requests to /api/logBooking that were answered with success
Acknowledged ==
    {r \in DOMAIN requests : requests[r].op = "logBooking" /\ requests[r].status = 200}

SamePair(a, b) == a.tripCode = b.tripCode /\ a.riderId = b.riderId

\* C17: whenever the data file holds a complete content, it holds at most
\* one booking per (tripCode, riderId), and for every pair with an
\* acknowledged update it holds the booking with the most recent timestamp
\* among the acknowledged updates of the pair, whatever the interleaving of
\* the logBooking requests was.
C17_OneLatestBookingPerPair ==
    file # Torn =>
        /\ \A i, j \in 1..Len(file.bookings) :
              SamePair(file.bookings[i], file.bookings[j]) => i = j
        /\ \A r \in Acknowledged :
              \E i \in 1..Len(file.bookings) :
                  /\ SamePair(file.bookings[i], requests[r].booking)
                  /\ \A q \in Acknowledged :
                        SamePair(requests[q].booking, requests[r].booking) =>
                            requests[q].booking.timestamp.v
                                <= file.bookings[i].timestamp.v

(***************************************************************************)
(* Properties of the scan.  Neighbors and core points are defined here     *)
(* from the distances, independently of getNeighbors.                      *)
(***************************************************************************)
WithinRadius(p, q) ==
    CoordUnitMeters * CoordUnitMeters *
        ((p.lat.v - q.lat.v) * (p.lat.v - q.lat.v) + (p.lng.v - q.lng.v) * (p.lng.v - q.lng.v))
      <= CLUSTER_RADIUS_METERS * CLUSTER_RADIUS_METERS

NeighborsOf(i) ==
    {j \in 1..Len(scan.points) : j # i /\ WithinRadius(scan.points[i], scan.points[j])}

CorePoint(i) == Cardinality(NeighborsOf(i)) + 1 >= minimumClusterSize

\* the clusters pushed so far and the one being expanded
ClustersSoFar ==
    Range(scan.tripSpecificClusters) \cup {scan.currentClusterIndices}

\* every member other than the seed is within the radius of a core point
\* that joined the cluster before it
JoinedThroughCore ==
    \A c \in ClustersSoFar :
        \A k \in 2..Len(c) :
            \E j \in 1..(k - 1) : CorePoint(c[j]) /\ c[k] \in NeighborsOf(c[j])

\* an iteration of the while loop enqueues points only when it adds a core
\* point to the cluster, and then only neighbors of that point
OnlyCoreEnqueues ==
    (scan.expanding /\ scan.queue # << >>) =>
        LET neighborIndex == Head(scan.queue)
            rest == Tail(scan.queue)
        IN  IF neighborIndex \notin scan.visited /\ CorePoint(neighborIndex)
            THEN /\ Len(scan'.queue) >= Len(rest)
                 /\ SubSeq(scan'.queue, 1, Len(rest)) = rest
                 /\ \A m \in (Len(rest) + 1)..Len(scan'.queue) :
                       scan'.queue[m] \in NeighborsOf(neighborIndex)
            ELSE scan'.queue = rest

\* C18: in the expansion only core points expand: every member of a cluster
\* other than its seed lies within CLUSTER_RADIUS_METERS of a core point
\* that joined the same cluster before it, and a member that is not a core
\* point never causes a point to be enqueued.
C18_OnlyCorePointsExpand ==
    []JoinedThroughCore /\ [][OnlyCoreEnqueues]_vars

\* with MINIMUM_CLUSTER_SIZE = 4 the scan has ended with a cluster that
\* holds a member that is not a core point and has a neighbor outside the
\* cluster
C18_Witness ==
    /\ ~scan.expanding
    /\ scan.points # << >>
    /\ scan.index > Len(scan.points)
    /\ \E k \in 1..Len(scan.tripSpecificClusters) :
          \E m \in 2..Len(scan.tripSpecificClusters[k]) :
              LET b == scan.tripSpecificClusters[k][m]
              IN  /\ ~CorePoint(b)
                  /\ \E x \in NeighborsOf(b) : x \notin Range(scan.tripSpecificClusters[k])

(***************************************************************************)
(* Properties of calculateClusters on the smallest inputs.                 *)
(***************************************************************************)
\* the pings i and j of the input are within CLUSTER_RADIUS_METERS
PingsWithinRadius(i, j) == WithinRadius(bookings[i], bookings[j])

\* C19: a trip whose recent pings are exactly MINIMUM_CLUSTER_SIZE pings,
\* all within CLUSTER_RADIUS_METERS of one another, has exactly one
\* cluster, and its entry has riderCount = MINIMUM_CLUSTER_SIZE and lists
\* the riders of all these pings.
C19_ExactlyMClosePings ==
    ClustersCalled =>
        \A t \in TripCodes :
            LET fresh == FreshIndices(t, tripClusterResults.at)
            IN  (/\ Cardinality(fresh) = MINIMUM_CLUSTER_SIZE
                 /\ \A i, j \in fresh : PingsWithinRadius(i, j))
                => /\ t \in Emitted
                   /\ Len(FoundAtCall(t)) = 1
                   /\ tripClusterResults.map[t].riderCount = MINIMUM_CLUSTER_SIZE
                   /\ Len(tripClusterResults.map[t].riders) = MINIMUM_CLUSTER_SIZE
                   /\ \A i \in fresh :
                         bookings[i].riderId \in Range(tripClusterResults.map[t].riders)

\* the recent pings of a trip are two pings exactly CLUSTER_RADIUS_METERS
\* apart, next to an older or malformed ping of the trip, and the trip has
\* its entry
C19_Witness ==
    /\ ClustersCalled
    /\ "T1" \in Emitted
    /\ Cardinality(FreshIndices("T1", tripClusterResults.at)) = MINIMUM_CLUSTER_SIZE
    /\ \E i, j \in FreshIndices("T1", tripClusterResults.at) :
          /\ i # j
          /\ (bookings[i].lat.v - bookings[j].lat.v) * CoordUnitMeters = CLUSTER_RADIUS_METERS
    /\ \E k \in 1..Len(bookings) :
          /\ bookings[k].tripCode = "T1"
          /\ k \notin FreshIndices("T1", tripClusterResults.at)
    /\ tripClusterResults.map["T1"].riderCount = MINIMUM_CLUSTER_SIZE

\* C20: a trip whose recent pings are MINIMUM_CLUSTER_SIZE pings that are
\* pairwise farther than CLUSTER_RADIUS_METERS apart has no entry in the
\* result.
C20_MFarPingsNoEntry ==
    ClustersCalled =>
        \A t \in TripCodes :
            LET fresh == FreshIndices(t, tripClusterResults.at)
            IN  (/\ Cardinality(fresh) = MINIMUM_CLUSTER_SIZE
                 /\ \A i, j \in fresh : i # j => ~PingsWithinRadius(i, j))
                => t \notin Emitted

\* the recent pings of a trip are two pings farther apart than the radius,
\* a malformed ping of the trip lies within the radius of both, and the
\* trip has no entry
C20_Witness ==
    /\ ClustersCalled
    /\ "T1" \notin Emitted
    /\ Cardinality(FreshIndices("T1", tripClusterResults.at)) = MINIMUM_CLUSTER_SIZE
    /\ \E i, j \in FreshIndices("T1", tripClusterResults.at) :
          /\ i # j
          /\ ~PingsWithinRadius(i, j)
          /\ \E k \in 1..Len(bookings) :
                /\ bookings[k].tripCode = "T1"
                /\ BadTimestamp(bookings[k])
                /\ PingsWithinRadius(i, k) /\ PingsWithinRadius(k, j)


(***************************************************************************)
(* The order of the members of a cluster.                                  *)
(***************************************************************************)
\* points.forEach has gone through every point
ScanEnded == ~scan.expanding /\ scan.index > Len(scan.points)

\* the riders list of a cluster: its members' riderIds in cluster order
RidersList(c) == [k \in 1..Len(c) |-> scan.points[c[k]].riderId]

\* the seed stands first and has the lowest index, no member stands twice
SeedFirstEachOnce ==
    \A c \in ClustersSoFar :
        /\ \A k \in 2..Len(c) : c[1] < c[k]
        /\ \A j, k \in 1..Len(c) : j # k => c[j] # c[k]

\* a cluster starts as its seed, grows at its end by the point dequeued
\* from the front of the queue, and is recorded as it stands
GrowsInDequeueOrder ==
    /\ (~scan.expanding /\ scan'.expanding) =>
          scan'.currentClusterIndices = <<scan.index>>
    /\ (scan.expanding /\ scan.queue # << >>) =>
          /\ scan'.currentClusterIndices =
                IF Head(scan.queue) \in scan.visited
                THEN scan.currentClusterIndices
                ELSE Append(scan.currentClusterIndices, Head(scan.queue))
          /\ Len(scan'.queue) >= Len(scan.queue) - 1
          /\ SubSeq(scan'.queue, 1, Len(scan.queue) - 1) = Tail(scan.queue)
    /\ (scan.expanding /\ scan.queue = << >>) =>
          scan'.tripSpecificClusters =
              Append(scan.tripSpecificClusters, scan.currentClusterIndices)

\* the clusters calculateClusters works with are those of the finished scan,
\* and the riders of the one it picks are that cluster's riders list
EmittedAsRecorded ==
    ScanEnded =>
        /\ tripSpecificClusters(scan.points) = scan.tripSpecificClusters
        /\ scan.tripSpecificClusters # << >> =>
              LET picked == largestCluster(tripSpecificClusters(scan.points))
                  largest == [i \in 1..Len(picked) |-> scan.points[picked[i]]]
              IN  [i \in 1..Len(largest) |-> largest[i].riderId]
                      = RidersList(largestCluster(scan.tripSpecificClusters))

\* C21: the riders list of an emitted cluster gives its members in
\* discovery order: the seed first, which is the member with the lowest
\* input index, then the other members in the order they were dequeued
\* from the FIFO queue, each member exactly once.
C21_RidersInDiscoveryOrder ==
    /\ []SeedFirstEachOnce
    /\ []EmittedAsRecorded
    /\ [][GrowsInDequeueOrder]_vars

\* the scan has ended with a cluster whose discovery order is not the
\* order of the indices
C21_Witness ==
    /\ ScanEnded
    /\ \E c \in Range(scan.tripSpecificClusters) :
          /\ Len(c) >= 3
          /\ \E k \in 2..(Len(c) - 1) : c[k] > c[k + 1]
          /\ RidersList(c) # << >>


(***************************************************************************)
(* Termination of the scan.                                                *)
(***************************************************************************)
\* the indices that stand in some cluster
ClusterMembers ==
    UNION {Range(c) : c \in ClustersSoFar}

\* the number of places the index i takes in the clusters
PlacesOf(i) ==
    Cardinality({k \in 1..Len(scan.currentClusterIndices) : scan.currentClusterIndices[k] = i})
      + Cardinality({<<n, k>> \in (1..Len(scan.tripSpecificClusters)) \X (1..Len(scan.points)) :
                        /\ k <= Len(scan.tripSpecificClusters[n])
                        /\ scan.tripSpecificClusters[n][k] = i})

\* a step marks at most one point, one that was not marked before, and no
\* mark is ever taken back
MarkedOnce ==
    /\ scan.visited \subseteq scan'.visited
    /\ Cardinality(scan'.visited \ scan.visited) <= 1

\* a step adds at most one point to the clusters, one that stood in none
AddedOnce ==
    \A i \in 1..Len(scan.points) :
        /\ PlacesOf(i) <= 1
        /\ PlacesOf(i)' <= 1
        /\ PlacesOf(i)' >= PlacesOf(i)

\* C22: calculateClusters terminates on every finite input: the expansion
\* queue of every cluster becomes empty and the scan ends after finitely
\* many steps, every point being marked visited at most once and added to
\* a cluster at most once.
C22_ScanTerminates ==
    /\ <>ScanEnded
    /\ scan.expanding ~> (scan.queue = << >>)
    /\ [][MarkedOnce /\ AddedOnce]_vars

\* the scan of MaxScanPoints points has ended with every point marked and
\* a cluster of at least four members
C22_Witness ==
    /\ ScanEnded
    /\ scan.visited = 1..Len(scan.points)
    /\ Len(scan.points) = MaxScanPoints
    /\ \E c \in Range(scan.tripSpecificClusters) : Len(c) >= 4


(***************************************************************************)
(* The GET endpoints only read.                                            *)
(***************************************************************************)
\* a step that answers GET /api/getClusters or GET /api/getTripHealth
AnswersGet ==
    tripClusterResults' # tripClusterResults \/ tripHealth' # tripHealth

\* the step leaves the pings, the trips and the stored data as they were
OnlyReads ==
    /\ bookings' = bookings
    /\ trips' = trips
    /\ file' = file
    /\ requests' = requests

\* the answer is that of a first call on the same data at the same time,
\* whatever was answered before
NoStateKept ==
    /\ tripClusterResults' # tripClusterResults =>
          /\ tripClusterResults'.map = calculateClusters(bookings', trips', clock)
          /\ tripHealth' = tripHealth
    /\ tripHealth' # tripHealth =>
          /\ tripHealth'.map = calculateTripHealth(bookings', trips', clock)
          /\ tripClusterResults' = tripClusterResults

\* C23: calculateClusters and calculateTripHealth, and the GET endpoints
\* that call them, only read: a call leaves the pings, the trips and the
\* stored data unchanged, and its answer depends on nothing kept from an
\* earlier call.
C23_GetsOnlyRead ==
    [][AnswersGet => (OnlyReads /\ NoStateKept)]_vars

\* both endpoints have answered, at different times, on data with a
\* cluster, and the data holds a ping too old for clustering
C23_Witness ==
    /\ ClustersCalled /\ HealthCalled
    /\ tripClusterResults.at # tripHealth.at
    /\ Emitted # {}
    /\ \E i \in 1..Len(bookings) : ~IsRecentBooking(bookings[i], clock)


(***************************************************************************)
(* The center of an emitted cluster.                                       *)
(***************************************************************************)
\* the sum of the sequence s from its element i on
RECURSIVE SumFrom(_, _)
SumFrom(s, i) == IF i > Len(s) THEN 0 ELSE s[i] + SumFrom(s, i + 1)

\* the product of the elements of s from i on, the element at skip left out
RECURSIVE ProductFrom(_, _, _)
ProductFrom(s, skip, i) ==
    IF i > Len(s) THEN 1
    ELSE (IF i = skip THEN 1 ELSE s[i]) * ProductFrom(s, skip, i + 1)

\* the accuracy that weighs a ping: 50 when missing or not > 0, at least 1
WeighingAccuracy(b) ==
    IF b.accuracy.k = "num" /\ b.accuracy.v > 0
    THEN (IF b.accuracy.v < 1 THEN 1 ELSE b.accuracy.v)
    ELSE 50

\* the pings of the emitted cluster of a trip, as bookings of the input
MembersOfEmitted(tripCode) ==
    LET recent == bookingsByTrip(bookings, tripClusterResults.at, tripCode)
        found == FoundAtCall(tripCode)
        RidersAt(k) == [i \in 1..Len(found[k]) |-> recent[found[k][i]].riderId]
        k == CHOOSE k \in 1..Len(found) :
                RidersAt(k) = tripClusterResults.map[tripCode].riders
    IN  << >> \o [i \in 1..Len(found[k]) |-> recent[found[k][i]]]

\* the fraction q is the mean of the coordinates x weighted by 1 / acc, it
\* lies between the smallest and the largest of them, and it is the plain
\* mean when all accuracies are equal
IsWeightedMean(q, x, acc) ==
    LET I == 1..Len(x)
        \* 1 / acc[i] scaled by the product of all accuracies
        w == << >> \o [i \in I |-> ProductFrom(acc, i, 1)]
        xw == << >> \o [i \in I |-> x[i] * w[i]]
    IN  /\ q.k = "frac" /\ q.d > 0
        /\ q.n * SumFrom(w, 1) = q.d * SumFrom(xw, 1)
        /\ \E i \in I : x[i] * q.d <= q.n
        /\ \E i \in I : x[i] * q.d >= q.n
        /\ (\A i, j \in I : acc[i] = acc[j]) => q.n * Len(x) = q.d * SumFrom(x, 1)

\* the center of the emitted cluster of a trip is the weighted mean of the
\* latitudes and of the longitudes of its members
CenterOfMembers(tripCode) ==
    LET members == MembersOfEmitted(tripCode)
        acc == << >> \o [i \in 1..Len(members) |-> WeighingAccuracy(members[i])]
        lats == << >> \o [i \in 1..Len(members) |-> members[i].lat.v]
        lngs == << >> \o [i \in 1..Len(members) |-> members[i].lng.v]
    IN  /\ IsWeightedMean(tripClusterResults.map[tripCode].center.lat, lats, acc)
        /\ IsWeightedMean(tripClusterResults.map[tripCode].center.lng, lngs, acc)

LatOf(b) == b.lat.v

DistanceSqBetween(i, j) ==
    calculateHaversineDistanceSq(scan.points[i].lat.v, scan.points[i].lng.v,
                                 scan.points[j].lat.v, scan.points[j].lng.v)

\* j is among the neighbors getNeighbors returns for i
IsNeighborOf(j, i) ==
    j \in Range(getNeighbors(i, scan.points, CLUSTER_RADIUS_METERS))

\* the points whose neighbors the scan looks up next: the one forEach
\* stands at and the one at the front of the queue
LookedUpNext ==
    {i \in 1..Len(scan.points) :
        \/ ~scan.expanding /\ i = scan.index
        \/ scan.expanding /\ scan.queue # << >> /\ i = Head(scan.queue)}

C26_ClustersHaveMinimumSize ==
    \A n \in 1..Len(scan.tripSpecificClusters) :
        /\ Len(scan.tripSpecificClusters[n]) >= minimumClusterSize
        /\ Len(scan.tripSpecificClusters[n]) > 0


(***************************************************************************)
(* Points first taken for noise.                                           *)
(***************************************************************************)
\* the point lies within the radius of a core point that stands in a
\* recorded cluster
NearClusteredCore(i) ==
    \E n \in 1..Len(scan.tripSpecificClusters) :
        \E k \in 1..Len(scan.tripSpecificClusters[n]) :
            /\ CorePoint(scan.tripSpecificClusters[n][k])
            /\ i \in NeighborsOf(scan.tripSpecificClusters[n][k])

\* C27: a point that is not a core point and that the scan reaches before
\* any core point near it still becomes a border member later: when the
\* scan ends, every point within CLUSTER_RADIUS_METERS of a core point of
\* some cluster belongs to a cluster, for every minimum size and every
\* input order.
C27_NoiseBecomesBorder ==
    ScanEnded =>
        \A i \in 1..Len(scan.points) : NearClusteredCore(i) => i \in ClusterMembers


(***************************************************************************)
(* Disjointness of the clusters.                                           *)
(***************************************************************************)
\* no index stands in two clusters or twice in one
ClustersDisjoint ==
    /\ \A c \in ClustersSoFar :
          \A j, k \in 1..Len(c) : j # k => c[j] # c[k]
    /\ \A n \in 1..Len(scan.tripSpecificClusters) :
          /\ Range(scan.tripSpecificClusters[n]) \cap Range(scan.currentClusterIndices) = {}
          /\ \A m \in 1..(n - 1) :
                Range(scan.tripSpecificClusters[n]) \cap Range(scan.tripSpecificClusters[m]) = {}

\* the points a step adds to a cluster are the ones it marks visited, and
\* every member is marked
AddedWhenMarked ==
    /\ ClusterMembers' \ ClusterMembers \subseteq scan'.visited \ scan.visited
    /\ ClusterMembers' \subseteq scan'.visited

\* C28: the clusters found for one trip are pairwise disjoint and no
\* cluster contains a point twice: at every step of the scan each point
\* belongs to at most one cluster, and a point is added to a cluster only
\* at the moment it is marked visited.
C28_ClustersDisjoint ==
    []ClustersDisjoint /\ [][AddedWhenMarked]_vars

\* the scan has ended with two clusters, one of them with a member that
\* is a neighbor both of the seed and of another member
C28_Witness ==
    /\ ScanEnded
    /\ Len(scan.tripSpecificClusters) = 2
    /\ \E c \in Range(scan.tripSpecificClusters) :
          /\ Len(c) >= 3
          /\ \E j, k \in 2..Len(c) :
                j # k /\ c[k] \in NeighborsOf(c[1]) /\ c[k] \in NeighborsOf(c[j])


(***************************************************************************)
(* Clusters and connected components.                                      *)
(***************************************************************************)
\* the points linked to a point of S by a chain of steps of at most
\* CLUSTER_RADIUS_METERS
RECURSIVE LinkedTo(_)
LinkedTo(S) ==
    LET T == S \cup UNION {NeighborsOf(j) : j \in S}
    IN  IF T = S THEN S ELSE LinkedTo(T)

\* the connected components with at least two points
Components ==
    {K \in {LinkedTo({i}) : i \in 1..Len(scan.points)} : Cardinality(K) >= 2}

\* the points with two neighbors in the list exchanged
SwapAt(s, k) ==
    [i \in 1..Len(s) |-> IF i = k THEN s[k + 1] ELSE IF i = k + 1 THEN s[k] ELSE s[i]]

\* riderCount of the winning cluster for the points in the order s
WinningCount(s) ==
    LET found == tripSpecificClusters(s)
    IN  IF found = << >> THEN 0 ELSE Len(largestCluster(found))

\* C29: with the default MINIMUM_CLUSTER_SIZE = 2 the clusters found for a
\* trip are exactly the connected components with at least two points of
\* the graph that links the points at distance <= CLUSTER_RADIUS_METERS;
\* the winning cluster's riderCount is the size of the largest component
\* and stays the same when two adjacent points of the input are exchanged,
\* hence, every order being an input, under every permutation.
C29_ClustersAreComponents ==
    (ScanEnded /\ minimumClusterSize = MINIMUM_CLUSTER_SIZE) =>
        /\ {Range(c) : c \in Range(scan.tripSpecificClusters)} = Components
        /\ Len(scan.tripSpecificClusters) = Cardinality(Components)
        /\ \A K \in Components : Cardinality(K) <= WinningCount(scan.points)
        /\ Components # {} => \E K \in Components : Cardinality(K) = WinningCount(scan.points)
        /\ \A k \in 1..(Len(scan.points) - 1) :
              WinningCount(SwapAt(scan.points, k)) = WinningCount(scan.points)

\* with the default minimum size the scan has ended with two clusters,
\* the smaller found first
C29_Witness ==
    /\ ScanEnded
    /\ minimumClusterSize = MINIMUM_CLUSTER_SIZE
    /\ Len(scan.tripSpecificClusters) = 2
    /\ Len(scan.tripSpecificClusters[1]) < Len(scan.tripSpecificClusters[2])
    /\ WinningCount(scan.points) = Len(scan.tripSpecificClusters[2])


(***************************************************************************)
(* Clusters and health on one snapshot.                                    *)
(***************************************************************************)
\* both calculations have run, at the same time
SameNow ==
    ClustersCalled /\ HealthCalled /\ tripClusterResults.at = tripHealth.at

\* C30: for a registered trip, on the same snapshot and the same now, if
\* calculateClusters emits a cluster for the trip then calculateTripHealth
\* gives the trip the status ACTIVE or STALE, never INACTIVE or NO_SIGNAL.
C30_ClusterImpliesActiveOrStale ==
    SameNow =>
        \A t \in Emitted :
            (\E i \in 1..Len(trips) : trips[i].code = t) =>
                /\ t \in DOMAIN tripHealth.map
                /\ tripHealth.map[t].status \in {"ACTIVE", "STALE"}

\* a cluster was emitted for a registered trip whose status at the same
\* time is STALE, and one for a registered trip whose status is ACTIVE
C30_Witness ==
    /\ SameNow
    /\ {"T1", "T2"} \subseteq Emitted
    /\ {"T1", "T2"} \subseteq DOMAIN tripHealth.map
    /\ tripHealth.map["T1"].status = "STALE"
    /\ tripHealth.map["T2"].status = "ACTIVE"

(***************************************************************************)
(* Overlapping write handlers against their serial executions.             *)
(***************************************************************************)
\* the requests answered with a success status, or with the 404 of a
\* deleteTrip that wrote the store
Answered ==
    {r \in 1..Len(requests) :
        requests[r].pc = "done" /\ requests[r].status \in {200, 201, 404}}

IsSampleBooking(b) == b.tripCode \in sampleTripCodes

\* the store after request r run alone on store, with the values r took
\* (its timestamp, its random draws)
SerialStep(store, r) ==
    LET req == requests[r]
        registered(code) == \E i \in 1..Len(store.trips) : store.trips[i].code = code
    IN  CASE req.op = "logBooking" ->
                 IF registered(req.booking.tripCode)
                 THEN [store EXCEPT !.bookings = Upsert(store.bookings, req.booking)]
                 ELSE store
          [] req.op = "createTrip" ->
                 IF registered(TrimUpper(req.body))
                 THEN store
                 ELSE [store EXCEPT !.trips = Append(store.trips, Trip(TrimUpper(req.body)))]
          [] req.op = "deleteTrip" -> WithoutTrip(store, TrimUpper(req.body))
          [] req.op = "resetData" -> InitialData
          [] OTHER ->
                 [trips |-> WithSampleTrips(store.trips, 1),
                  bookings |-> SelectSeq(store.bookings, LAMBDA b : ~IsSampleBooking(b))
                                  \o SelectSeq(req.data.bookings, IsSampleBooking)]

\* the store after the requests of order run one after the other from store
RECURSIVE SerialRun(_, _)
SerialRun(store, order) ==
    IF order = << >> THEN store
    ELSE SerialRun(SerialStep(store, Head(order)), Tail(order))

\* the orders in which the answered requests can be run one after the other
SerialOrders ==
    {order \in [1..Cardinality(Answered) -> Answered] :
        \A i, j \in 1..Cardinality(Answered) : order[i] = order[j] => i = j}

AllAnswered == requests # << >> /\ \A r \in 1..Len(requests) : requests[r].pc = "done"

\* C31: once every request is answered, the data file equals the store that
\* running the answered write requests one after the other, in some order,
\* from the empty store produces.
C31_FinalStoreIsSerial ==
    AllAnswered =>
        \E order \in SerialOrders : SerialRun(InitialData, order) = file

\* the codes registered in a store
CodesOf(store) == {store.trips[i].code : i \in 1..Len(store.trips)}

\* request r was answered with status, having made the call op
AnsweredWith(r, op, status) ==
    r \in DOMAIN requests /\ requests[r].op = op /\ requests[r].status = status

\* C32: whenever the data file holds a complete content, no two registered
\* trips have the same code and every registered code is its own trimmed,
\* upper-case form, whatever the interleaving of the write handlers was.
C32_TripCodesUniqueAndNormalised ==
    file # Torn =>
        /\ \A i, j \in 1..Len(file.trips) :
              file.trips[i].code = file.trips[j].code => i = j
        /\ \A i \in 1..Len(file.trips) : TrimUpper(file.trips[i].code) = file.trips[i].code

\* two overlapping createTrip requests for one code were both answered 201
\* (the second read the file before the first wrote it), and initData or a
\* createTrip of ' iki490' registered a sample code
C32_Witness ==
    /\ file # Torn
    /\ \/ /\ AnsweredWith(1, "createTrip", 201) /\ AnsweredWith(2, "createTrip", 201)
          /\ requests[1].body = requests[2].body
          /\ TrimUpper(requests[1].body) \in CodesOf(file)
       \/ /\ AnsweredWith(1, "createTrip", 201) /\ AnsweredWith(2, "initData", 200)
          /\ requests[1].body = " iki490"
          /\ Len(file.trips) = Len(sampleTrips)

\* C33: whenever the data file holds a complete content, every booking's
\* tripCode is the code of a registered trip, whatever the interleaving of
\* logBooking, deleteTrip, resetData and the other write handlers was; so
\* every trip getClusters finds recent bookings for in the file, and can
\* report a cluster for, is registered.
C33_NoOrphanBookings ==
    file # Torn =>
        /\ \A i \in 1..Len(file.bookings) : file.bookings[i].tripCode \in CodesOf(file)
        /\ TripsWithRecent(file.bookings, clock) \subseteq CodesOf(file)

\* a logBooking and a deleteTrip of its trip overlapped: both are answered
\* with success and the file holds the booking of the logBooking, with its
\* trip
C33_Witness ==
    /\ file # Torn
    /\ \E r, q \in DOMAIN requests :
          /\ AnsweredWith(r, "logBooking", 200) /\ AnsweredWith(q, "deleteTrip", 200)
          /\ TrimUpper(requests[q].body) = requests[r].booking.tripCode
          /\ \E i \in 1..Len(file.bookings) : file.bookings[i] = requests[r].booking
          /\ TripsWithRecent(file.bookings, clock) # {}

\* C34: a step in which a request is answered with status 400, and every
\* later step of such a request, leaves the data file unchanged.
C34_RejectedLeavesStore ==
    [][\A r \in DOMAIN requests' :
          requests'[r].status = 400 =>
              \/ r \in DOMAIN requests /\ requests'[r] = requests[r]
              \/ file' = file]_vars

\* a logBooking for an unregistered trip and a createTrip of a registered
\* code were both rejected after their read, on a file that holds a trip
\* and a booking
C34_Witness ==
    /\ file # Torn /\ file.trips # << >> /\ file.bookings # << >>
    /\ \E r, q \in DOMAIN requests :
          /\ AnsweredWith(r, "logBooking", 400) /\ requests[r].data # Null
          /\ AnsweredWith(q, "createTrip", 400) /\ requests[q].data # Null

(***************************************************************************)
(* One request run alone: the data file after the request against the      *)
(* content it had at the start, which bookings and trips keep.             *)
(***************************************************************************)
\* the only request made is a call of op, answered with status
RanAlone(op, status) == Len(requests) = 1 /\ AnsweredWith(1, op, status)

IsPair(b, tripCode, riderId) == b.tripCode = tripCode /\ b.riderId = riderId

\* C35: after a successful logBooking for (tripCode, riderId) run alone,
\* the trips are those of the start, and the bookings are those of the
\* start with the pair's booking replaced at its position by a booking of
\* the pair, or, when the pair had none, with one booking of the pair
\* added at the end.
C35_LogBookingUpsertsInPlace ==
    RanAlone("logBooking", 200) =>
        LET tripCode == TrimUpper(requests[1].body.code)
            riderId == requests[1].body.riderId
            had == {i \in 1..Len(bookings) : IsPair(bookings[i], tripCode, riderId)}
        IN  /\ file # Torn
            /\ file.trips = trips
            /\ Len(file.bookings) <= Len(bookings) + 1
            /\ IF had = {}
               THEN /\ Len(file.bookings) = Len(bookings) + 1
                    /\ SubSeq(file.bookings, 1, Len(bookings)) = bookings
                    /\ IsPair(file.bookings[Len(file.bookings)], tripCode, riderId)
               ELSE /\ Len(file.bookings) = Len(bookings)
                    /\ \E k \in had :
                          /\ IsPair(file.bookings[k], tripCode, riderId)
                          /\ file.bookings[k].timestamp = DateOf(clock)
                          /\ \A i \in 1..Len(bookings) : i # k => file.bookings[i] = bookings[i]

\* the pair's booking stood between two other bookings and was replaced
\* there by the new one
C35_Witness ==
    /\ RanAlone("logBooking", 200)
    /\ Len(bookings) = 3 /\ Len(file.bookings) = 3
    /\ IsPair(bookings[2], "T1", "r1")
    /\ file.bookings[2] = requests[1].booking
    /\ file.bookings[2] # bookings[2]

\* C36: after deleteTrip(code) run alone, the trips and the bookings of the
\* file are those of the start without the ones of the trimmed, upper-case
\* code, in their order; the status is 200 when the code was registered
\* and 404 when it was not.
C36_DeleteTripRemovesTripAndBookings ==
    (Len(requests) = 1 /\ requests[1].op = "deleteTrip" /\ requests[1].pc = "done"
       /\ requests[1].status # 400) =>
        LET code == TrimUpper(requests[1].body)
            OtherTrip(t) == t.code # code
            OtherBooking(b) == b.tripCode # code
        IN  /\ file # Torn
            /\ \A i \in 1..Len(file.trips) : file.trips[i].code # code
            /\ \A i \in 1..Len(file.bookings) : file.bookings[i].tripCode # code
            /\ file.trips = SelectSeq(trips, OtherTrip)
            /\ file.bookings = SelectSeq(bookings, OtherBooking)
            /\ requests[1].status = IF code \in CodesOf([trips |-> trips]) THEN 200 ELSE 404

\* deleteTrip of a code that was not registered answered 404 and removed
\* the bookings the file had for the code, keeping another booking
C36_Witness ==
    /\ RanAlone("deleteTrip", 404)
    /\ file # Torn
    /\ Len(file.bookings) < Len(bookings)
    /\ file.bookings # << >>

\* C37: after initData run alone, each sample trip is registered exactly
\* once and has exactly SampleRidersPerTrip bookings, with pairwise
\* distinct riderIds, and the trips and bookings of the other codes are
\* those of the start, in their order.
C37_InitDataRegeneratesSamples ==
    RanAlone("initData", 200) =>
        /\ file # Torn
        /\ \A code \in sampleTripCodes :
              LET ofCode == {i \in 1..Len(file.bookings) : file.bookings[i].tripCode = code}
              IN  /\ Cardinality({i \in 1..Len(file.trips) : file.trips[i].code = code}) = 1
                  /\ Cardinality(ofCode) = SampleRidersPerTrip
                  /\ \A i, j \in ofCode :
                        file.bookings[i].riderId = file.bookings[j].riderId => i = j
        /\ LET OtherTrip(t) == t.code \notin sampleTripCodes
               OtherBooking(b) == b.tripCode \notin sampleTripCodes
           IN  /\ SelectSeq(file.trips, OtherTrip) = SelectSeq(trips, OtherTrip)
               /\ SelectSeq(file.bookings, OtherBooking) = SelectSeq(bookings, OtherBooking)

\* initData ran on a file that registered a sample trip and held a booking
\* of it between bookings of another trip
C37_Witness ==
    /\ RanAlone("initData", 200)
    /\ file # Torn
    /\ Len(bookings) = 3 /\ bookings[2].tripCode \in sampleTripCodes
    /\ bookings[1].tripCode = "T1" /\ bookings[3].tripCode = "T1"
    /\ \E i \in 1..Len(trips) : trips[i].code \in sampleTripCodes

\* req.query.since as the claim reads it: an instant, 0 when it is not a
\* number or is negative
EffectiveSince(raw) == IF raw.k = "num" /\ raw.v >= 0 THEN raw.v ELSE 0

\* C38: the step that answers fetchNewBookings(since) leaves the data file
\* unchanged, and the answer holds exactly the bookings of the file whose
\* timestamp is a date strictly after since (0 for a since that is not a
\* number or is negative), each once, newest first.
C38_FetchNewBookingsFiltersAndSorts ==
    [][newBookings' # newBookings =>
          LET list == newBookings'.list
              since == EffectiveSince(newBookings'.since)
              stored == readData(file).bookings
              expected == {i \in 1..Len(stored) :
                              /\ stored[i].timestamp.k = "date"
                              /\ stored[i].timestamp.v > since}
          IN  /\ file' = file /\ requests' = requests
              /\ Len(list) = Cardinality(expected)
              /\ Range(list) = {stored[i] : i \in expected}
              /\ \A i, j \in 1..Len(list) :
                    i < j => list[i].timestamp.v >= list[j].timestamp.v]_vars

\* fetchNewBookings answered two bookings of the same instant, the file
\* holding also a booking made exactly at since and one without a valid
\* timestamp
C38_Witness ==
    /\ newBookings.called
    /\ newBookings.since = Num(Clock0 - 2 * MsPerMinute)
    /\ Len(newBookings.list) = 2
    /\ Len(file.bookings) = 3
    /\ \E i \in 1..Len(file.bookings) : file.bookings[i].timestamp = DateOf(Clock0 - 2 * MsPerMinute)

(***************************************************************************)
(* The result of the dashboard's fetchRiderData against the data file.     *)
(***************************************************************************)
\* the bookings of the file with a valid timestamp
ValidStored == {i \in 1..Len(file.bookings) : file.bookings[i].timestamp.k = "date"}

\* C39: the result of fetchRiderData holds, for each (tripCode, riderId)
\* with a booking of valid timestamp in the data file, exactly one booking
\* of the pair, one of the latest timestamp among them, and holds nothing
\* else: two different pairs are never merged into one entry.
C39_ClientKeepsLatestPerPair ==
    (uniqueData.called /\ file # Torn) =>
        LET list == uniqueData.list
        IN  /\ \A i \in ValidStored :
                  LET ofPair == {n \in 1..Len(list) : SamePair(list[n], file.bookings[i])}
                  IN  /\ Cardinality(ofPair) = 1
                      /\ \A n \in ofPair :
                            list[n].timestamp.v >= file.bookings[i].timestamp.v
            /\ \A n \in 1..Len(list) : \E i \in ValidStored : list[n] = file.bookings[i]

====
